---- MODULE Spec2Model ----
(***************************************************************************)
(* Scheduling and concurrency engine of the appointment bot (src/app).     *)
(*                                                                         *)
(* The store is the PostgreSQL database behind SQLAlchemy sessions, in its *)
(* default READ COMMITTED isolation: every statement of a session reads    *)
(* the rows committed so far, and a session's own changes reach the other  *)
(* sessions when it commits.  A handler loads an Appointment into its      *)
(* session (snap), the logic functions assign attributes of that object    *)
(* (obj), and the commit flushes "UPDATE appointments SET <the attributes  *)
(* whose value differs from the loaded one> WHERE id = ...".               *)
(*                                                                         *)
(* Time is counted in units of the clock; durations, settings and the     *)
(* lengths of hour, day and week are scaled down to a few units.           *)
(***************************************************************************)
EXTENDS Integers, Sequences, FiniteSets, TLC

VARIABLES
    now,      \* the clock, datetime.now(tz=pytz.UTC)
    appts,    \* table appointments, committed rows; the id is the index
    blocks,   \* table blocked_intervals, committed rows
    rules,    \* table break_rules, committed rows
    sess,     \* the open session (transaction) of each handler task
    ticks,    \* the runs of the hold sweeper, scheduler.tick
    sent,     \* expiry notifications delivered so far, per appointment id
    job       \* the run of reminders.check_and_send_reminders

vars == <<now, appts, blocks, rules, sess, ticks, sent, job>>

---------------------------------------------------------------------------
(* Bounds of the model *)

MaxAppts == 2        \* rows ever inserted into appointments
MaxStart == 2        \* start instants offered: 0 .. MaxStart
MaxBlocks == 1       \* rows ever inserted into blocked_intervals
NumProcs == 2        \* handler tasks that may be inside a transaction
NumTicks == 2        \* sweeper runs that may be in progress at once
MaxNow == 3          \* the clock stops here
MaxRules == 2        \* rows of break_rules
MaxHorizon == 2      \* settings.booking_horizon_days: 0 .. MaxHorizon
MaxDay == 1          \* days offered for a booking: 0 .. MaxDay

(* Program constants, in units of the clock *)

NULL == -1                 \* None in a nullable datetime column
buffer_min == 1            \* settings.buffer_min
hold_ttl_min == 2          \* settings.hold_ttl_min
cancel_limit_hours == 1    \* settings.cancel_limit_hours
reminder_48h_lead == 2     \* timedelta(hours=48) of the first reminder
reminder_2h_lead == 1      \* timedelta(hours=2) of the second reminder
reminder_win == 1          \* the width of a reminder window
hour_min == 4              \* the minutes of an hour
day_min == 8               \* the length of a day on the clock
tz_offset == 1             \* utcoffset of settings.tz, local = UTC + tz_offset
window_pad == 4            \* timedelta(hours=6) after work_end in the slot queries
week_len == 3              \* the days of a week, timedelta(days=7)
work_days == {0, 1}        \* settings.work_days, weekdays 0 .. week_len - 1

Procs == 1..NumProcs
Ticks == 1..NumTicks
ServiceIds == {1, 2}
Starts == 0..MaxStart
BreakDurations == {1, 2}

\* Service rows: duration_min and buffer_min of the services 1 and 2.
ServiceDuration(service_id) == IF service_id = 1 THEN 1 ELSE 2
ServiceBuffer(service_id) == IF service_id = 1 THEN 0 ELSE 1

---------------------------------------------------------------------------
(* Pure helpers of app/logic.py *)

\* compute_slot_end_for_duration: start + duration + service buffer + global buffer
compute_slot_end_for_duration(start, duration_min, service_id) ==
    start + duration_min + ServiceBuffer(service_id) + buffer_min

\* compute_slot_end: the same with the service's own duration
compute_slot_end(start, service_id) ==
    start + ServiceDuration(service_id) + ServiceBuffer(service_id) + buffer_min

\* _advisory_key_for_slot: a hash of "<start timestamp>:<service id>"; equal
\* arguments give equal keys, and within the model's small domain distinct
\* arguments give distinct keys.
AdvisoryKey(start, service_id) == start * 10 + service_id

ActiveStatus(st) == st \in {"Hold", "Booked"}

\* Closed intervals: ranges that only touch would intersect.
OverlapsClosed(s1, e1, s2, e2) == s1 <= e2 /\ e1 >= s2

\* The WHERE clause shared by every overlap query: half-open intersection.
Overlaps(s1, e1, s2, e2) == s1 < e2 /\ e1 > s2

\* A hold that stops counting when its hold_expires_at has passed.
OccupiesUntilExpiry(row) ==
    /\ ActiveStatus(row.status)
    /\ ~(row.status = "Hold" /\ row.hold_expires_at # NULL /\ row.hold_expires_at <= now)

\* The rows the overlap queries count: the status filter is their only
\* condition besides the span (and the excluded id)
Occupies(row) == ActiveStatus(row.status)

\* Ids of committed active appointments overlapping [start, end_), without `exclude`.
OverlapAppts(rows, start, end_, exclude) ==
    {i \in DOMAIN rows :
        /\ i # exclude
        /\ Occupies(rows[i])
        /\ Overlaps(rows[i].start_dt, rows[i].end_dt, start, end_)}

\* Ids of committed blocked intervals overlapping [start, end_); a deleted row
\* keeps its id and has no span.
OverlapBlocks(bl, start, end_) ==
    {i \in DOMAIN bl :
        /\ bl[i].start_dt # NULL
        /\ Overlaps(bl[i].start_dt, bl[i].end_dt, start, end_)}

\* _ensure_slot_available after the lock: the two queries and their raises.
EnsureSlotAvailable(rows, bl, start, end_, exclude) ==
    IF OverlapAppts(rows, start, end_, exclude) # {} THEN "SLOT_TAKEN"
    ELSE IF OverlapBlocks(bl, start, end_) # {} THEN "SLOT_BLOCKED"
    ELSE "OK"

---------------------------------------------------------------------------
(* Rows and sessions *)

\* An Appointment row (app/models.py); updated_at and the comments' text are
\* left out, admin_comment keeps only which writer set it, price_override is
\* the final price of handle_admin_visit_price (the price typed with the
\* confirmation of a hold is left out).
NoAppt ==
    [status |-> "None", start_dt |-> NULL, end_dt |-> NULL, service_id |-> 0,
     hold_expires_at |-> NULL, proposed_alt_start_dt |-> NULL,
     admin_comment |-> "None",
     reminder_24h_sent |-> FALSE, reminder_2h_sent |-> FALSE,
     visit_confirmed |-> FALSE, price_override |-> NULL]

\* The fields of SettingsView that the slot calculator reads; work_start and
\* work_end are times of day.
NoSettings ==
    [slot_step_min |-> 0, min_lead_time_min |-> 0, work_start |-> 0, work_end |-> 0]

\* A session with no transaction.
Idle ==
    [op |-> "idle", pc |-> "idle", id |-> 0, snap |-> NoAppt, obj |-> NoAppt,
     start |-> NULL, end_ |-> NULL, key |-> NULL, held |-> {}, now_utc |-> NULL,
     add |-> FALSE, res |-> "none",
     gen |-> <<>>, rsnap |-> <<>>, robj |-> <<>>, created |-> 0, skipped |-> 0,
     day |-> NULL, dur |-> 0, settings |-> NoSettings, slots |-> <<>>]

\* No mutual exclusion: the lock is always granted.
LockNever(p, k) == TRUE

\* A lock that only the tasks with a lower number can hold against p.
LockOrdered(p, k) == \A q \in Procs : q < p => k \notin sess[q].held

\* pg_advisory_xact_lock(k) returns at once when no other transaction holds k
\* (a transaction's own lock is re-entrant) and waits otherwise.
LockFree(p, k) == \A q \in Procs \ {p} : k \notin sess[q].held

\* The dispatcher gives a new update to the first task that is not in a handler.
Free(p) == sess[p].pc = "idle" /\ \A q \in Procs : q < p => sess[q].pc # "idle"

\* Rows inserted so far, committed or pending in an open session.
RowsUsed == Len(appts) + Cardinality({q \in Procs : sess[q].add})

\* The UPDATE of a flush: the attributes whose value differs from the loaded one.
Flush(row, snap, obj) ==
    [c \in DOMAIN row |-> IF obj[c] # snap[c] THEN obj[c] ELSE row[c]]

---------------------------------------------------------------------------
(* The logic functions on a loaded Appointment object *)

\* A hold that expires at its creation time.
NewHoldNoTtl(service_id, start, end_, now_utc) ==
    [NoAppt EXCEPT !.status = "Hold", !.start_dt = start, !.end_dt = end_,
                   !.service_id = service_id, !.hold_expires_at = now_utc]

\* Appointment(...) of create_hold_appointment[_with_duration]
NewHold(service_id, start, end_, now_utc) ==
    [NoAppt EXCEPT !.status = "Hold", !.start_dt = start, !.end_dt = end_,
                   !.service_id = service_id,
                   !.hold_expires_at = now_utc + hold_ttl_min]

\* Appointment(...) of create_admin_appointment_with_duration
NewBooked(service_id, start, end_) ==
    [NoAppt EXCEPT !.status = "Booked", !.start_dt = start, !.end_dt = end_,
                   !.service_id = service_id, !.admin_comment = "master"]

\* A confirmation that leaves the hold's expiry in place.
admin_confirm_keeps_expiry(o) ==
    IF o.status # "Hold" THEN o ELSE [o EXCEPT !.status = "Booked"]

admin_confirm(o) ==
    IF o.status # "Hold" THEN o
    ELSE [o EXCEPT !.status = "Booked", !.hold_expires_at = NULL]

admin_reject(o) ==
    IF o.status \notin {"Hold", "Booked"} THEN o
    ELSE [o EXCEPT !.status = "Rejected", !.admin_comment = "reason",
                   !.hold_expires_at = NULL]

\* A cutoff that refuses the cancellation at the limit itself.
cancel_by_client_before(o, now_utc) ==
    o.status = "Booked" /\ now_utc < o.start_dt - cancel_limit_hours

\* cancel_by_client: (returned bool, object)
cancel_by_client_ok(o, now_utc) ==
    o.status = "Booked" /\ ~(now_utc > o.start_dt - cancel_limit_hours)

cancel_by_client(o, now_utc) ==
    IF cancel_by_client_ok(o, now_utc) THEN [o EXCEPT !.status = "Canceled"] ELSE o

\* An operator's cancellation held to the client's cutoff.
admin_cancel_with_cutoff(o) ==
    IF o.status # "Booked" \/ now > o.start_dt - cancel_limit_hours
    THEN o ELSE [o EXCEPT !.status = "Canceled"]

admin_cancel_appointment(o) ==
    IF o.status # "Booked" THEN o ELSE [o EXCEPT !.status = "Canceled"]

\* A proposal that moves the appointment at once.
request_reschedule_moves(o, start) ==
    [o EXCEPT !.proposed_alt_start_dt = start, !.start_dt = start]

\* request_reschedule after its checks passed
request_reschedule_set(o, start) == [o EXCEPT !.proposed_alt_start_dt = start]

\* A move that keeps the old end and the old flags.
confirm_reschedule_keeps(o, start, end_) ==
    [o EXCEPT !.start_dt = start, !.proposed_alt_start_dt = NULL]

\* confirm_reschedule after its checks passed
confirm_reschedule_set(o, start, end_) ==
    [o EXCEPT !.start_dt = start, !.end_dt = end_,
              !.proposed_alt_start_dt = NULL,
              !.reminder_24h_sent = FALSE, !.reminder_2h_sent = FALSE,
              !.visit_confirmed = FALSE]

\* A rejection that cancels the appointment as well.
reject_reschedule_cancels(o) ==
    [o EXCEPT !.proposed_alt_start_dt = NULL, !.status = "Canceled"]

reject_reschedule(o) ==
    IF o.proposed_alt_start_dt = NULL THEN o
    ELSE [o EXCEPT !.proposed_alt_start_dt = NULL]

\* admin_visit_confirm: the visit flag, and Completed
\* for a Booked appointment whose end has passed
admin_visit_confirm_set(o, now_utc) ==
    [o EXCEPT !.visit_confirmed = TRUE,
              !.status = IF o.status = "Booked" /\ o.end_dt <= now_utc
                         THEN "Completed" ELSE o.status]

\* handle_admin_visit_price: the same after the price the operator typed, if
\* any, was put on the object
handle_admin_visit_price_set(o, now_utc, price_override) ==
    [admin_visit_confirm_set(o, now_utc) EXCEPT
        !.price_override = IF price_override # NULL THEN price_override ELSE @]

\* reminder_confirm: the client's "I will come"
reminder_confirm_set(o) == [o EXCEPT !.visit_confirmed = TRUE]

\* No query for blocked intervals: only appointments refuse an interval.
create_blocked_interval_no_blocks(rows, bl, start, end_) ==
    IF OverlapAppts(rows, start, end_, 0) # {} THEN "SLOT_TAKEN" ELSE "OK"

\* No query at all: every interval may be created.
create_blocked_interval_unchecked(rows, bl, start, end_) == "OK"

\* An appointment query that leaves the holds out.
create_blocked_interval_booked_only(rows, bl, start, end_) ==
    IF \E i \in DOMAIN rows :
          rows[i].status = "Booked" /\ Overlaps(rows[i].start_dt, rows[i].end_dt, start, end_)
    THEN "SLOT_TAKEN"
    ELSE IF OverlapBlocks(bl, start, end_) # {} THEN "SLOT_BLOCKED"
    ELSE "OK"

\* create_blocked_interval: its own two overlap queries, no lock, no exclusion
create_blocked_interval_check(rows, bl, start, end_) ==
    IF OverlapAppts(rows, start, end_, 0) # {} THEN "SLOT_TAKEN"
    ELSE IF OverlapBlocks(bl, start, end_) # {} THEN "SLOT_BLOCKED"
    ELSE "OK"

\* No re-validation of the span.
reschedule_check_none(rows, bl, start, end_, appt_id) == "OK"

\* The overlap queries written out in request_reschedule and confirm_reschedule
reschedule_check(rows, bl, start, end_, appt_id) ==
    IF OverlapAppts(rows, start, end_, appt_id) # {} THEN "SLOT_TAKEN"
    ELSE IF OverlapBlocks(bl, start, end_) # {} THEN "SLOT_BLOCKED"
    ELSE "OK"

NoBlock == [start_dt |-> NULL, end_dt |-> NULL]

BlocksUsed ==
    Len(blocks) + Cardinality({q \in Procs :
        sess[q].op = "create_blocked_interval" /\ sess[q].res = "OK"})

CreateOps == {"create_hold_appointment", "create_admin_appointment_with_duration"}

\* _slot_duration_for_services with the one service selected
DurationInputs(service_id) == {ServiceDuration(service_id)}

---------------------------------------------------------------------------
(* Break rules and their expansion *)

\* _to_utc and _to_tz for a zone of constant offset
to_utc(t) == t - tz_offset
to_tz(t) == t + tz_offset

\* date.weekday()
Weekday(d) == d % week_len

\* The date of an instant of the clock.
DateOf(t) == t \div day_min

\* A BreakRule row (app/models.py) as create_break_rule writes it.
BreakRule(repeat, start_date, start_time, duration_min, last_generated_date) ==
    [repeat |-> repeat, start_date |-> start_date, start_time |-> start_time,
     duration_min |-> duration_min, weekday |-> Weekday(start_date),
     last_generated_date |-> last_generated_date]

\* _candidate_break_start: the local instant of the rule's time on that day
candidate_break_start(rule, day) == day * day_min + rule.start_time

\* The while loop of _break_rule_due_dates.
RECURSIVE due_dates_from(_, _, _, _)
due_dates_from(cursor, step, through_day, wd) ==
    IF cursor > through_day THEN <<>>
    ELSE (IF Weekday(cursor) \in wd THEN <<cursor>> ELSE <<>>)
         \o due_dates_from(cursor + step, step, through_day, wd)

\* A cursor that starts again from the rule's first date every time.
break_rule_cursor_restart(rule, step) == rule.start_date

\* The cursor of _break_rule_due_dates
break_rule_cursor(rule, step) ==
    IF rule.last_generated_date # NULL /\ rule.last_generated_date > rule.start_date
    THEN rule.last_generated_date + step
    ELSE rule.start_date

\* Every rule stepped day by day, the weekly ones too.
break_rule_due_dates_daily(rule, through_day, wd) ==
    IF rule.repeat \notin {"daily", "weekly"} THEN <<>>
    ELSE due_dates_from(break_rule_cursor(rule, 1), 1, through_day, wd)

\* _break_rule_due_dates
break_rule_due_dates(rule, through_day, wd) ==
    IF rule.repeat \notin {"daily", "weekly"} THEN <<>>
    ELSE LET step == IF rule.repeat = "daily" THEN 1 ELSE week_len
         IN due_dates_from(break_rule_cursor(rule, step), step, through_day, wd)

\* The loop over candidate_days in generate_breaks_from_rules; acc carries the
\* blocks the session sees (stored and pending) and the two counters.
RECURSIVE generate_days(_, _, _, _)
generate_days(days, rule, rows, acc) ==
    IF days = <<>> THEN acc
    ELSE LET start_local == candidate_break_start(rule, Head(days))
             start == to_utc(start_local)
             end_ == to_utc(start_local + rule.duration_min)
             r == create_blocked_interval_check(rows, acc.bl, start, end_)
         IN generate_days(Tail(days), rule, rows,
               IF r = "OK"
               THEN [acc EXCEPT !.bl = Append(acc.bl, [start_dt |-> start, end_dt |-> end_]),
                                !.created = acc.created + 1]
               ELSE [acc EXCEPT !.skipped = acc.skipped + 1])

\* The loop over rules in generate_breaks_from_rules, from rule i on.
RECURSIVE generate_rules(_, _, _, _)
generate_rules(i, rows, through_day, acc) ==
    IF i > Len(acc.rules) THEN acc
    ELSE LET rule == acc.rules[i]
             wd == IF rule.repeat = "weekly" /\ rule.weekday # NULL
                   THEN work_days \cup {rule.weekday} ELSE work_days
             candidate_days == break_rule_due_dates(rule, through_day, wd)
             after == generate_days(candidate_days, rule, rows, acc)
         IN generate_rules(i + 1, rows, through_day,
               IF rule.repeat \notin {"daily", "weekly"} \/ candidate_days = <<>>
               THEN acc
               ELSE [after EXCEPT !.rules[i].last_generated_date =
                                      candidate_days[Len(candidate_days)]])

\* generate_breaks_from_rules: the blocks the session ends with, the rules as
\* the session holds them, and the returned (created, skipped).
generate_breaks_from_rules(rows, bl, rs, now_utc, horizon_days) ==
    generate_rules(1, rows, DateOf(to_tz(now_utc)) + horizon_days,
                   [bl |-> bl, rules |-> rs, created |-> 0, skipped |-> 0])

---------------------------------------------------------------------------
(* The slot calculator *)

\* _round_slot: the minute of the hour is cut down to a multiple of the step
round_slot(dt_local, step_min) ==
    LET minute == dt_local % hour_min
    IN dt_local - minute + (minute \div step_min) * step_min

\* overlaps(start_utc, end_utc) inside list_available_slots_for_duration, on
\* the rows the two window queries returned
slot_overlaps(rows, bl, ids, bids, start_utc, end_utc) ==
    \/ \E i \in ids : rows[i].start_dt < end_utc /\ rows[i].end_dt > start_utc
    \/ \E b \in bids : bl[b].start_dt < end_utc /\ bl[b].end_dt > start_utc

\* No test against the end of the working day.
slot_fits_any(end_local, work_end_local) == TRUE

\* "if end_local <= work_end_local"
slot_fits(end_local, work_end_local) == end_local <= work_end_local

\* The while loop of list_available_slots_for_duration; q carries the
\* function's locals.
RECURSIVE slots_from(_, _, _, _)
slots_from(cursor, q, rows, bl) ==
    IF ~(cursor < q.work_end_local) THEN <<>>
    ELSE LET end_local == compute_slot_end_for_duration(cursor, q.duration_min, q.service_id)
             take == /\ cursor >= q.earliest_local
                     /\ slot_fits(end_local, q.work_end_local)
                     /\ ~slot_overlaps(rows, bl, q.ids, q.bids,
                                       to_utc(cursor), to_utc(end_local))
         IN (IF take THEN <<cursor>> ELSE <<>>)
            \o slots_from(cursor + q.step, q, rows, bl)

\* list_available_slots_for_duration
list_available_slots_for_duration(rows, bl, st, service_id, day, duration_min, now_utc) ==
    LET work_start_local == day * day_min + st.work_start
        work_end_local == day * day_min + st.work_end
        window_start_utc == to_utc(work_start_local)
        window_end_utc == to_utc(work_end_local + window_pad)
        q == [earliest_local |-> to_tz(now_utc) + st.min_lead_time_min,
              work_end_local |-> work_end_local,
              step |-> st.slot_step_min,
              duration_min |-> duration_min, service_id |-> service_id,
              ids |-> {i \in DOMAIN rows :
                          /\ rows[i].start_dt < window_end_utc
                          /\ rows[i].end_dt > window_start_utc
                          /\ Occupies(rows[i])},
              bids |-> {b \in DOMAIN bl :
                          /\ bl[b].start_dt < window_end_utc
                          /\ bl[b].end_dt > window_start_utc}]
    IN slots_from(round_slot(work_start_local, st.slot_step_min), q, rows, bl)

---------------------------------------------------------------------------
(* Handlers: a transaction opens, the logic runs on the session's objects *)

Begin(p, op, a) ==
    [Idle EXCEPT !.op = op, !.pc = "open", !.id = a, !.snap = appts[a],
                 !.obj = appts[a], !.now_utc = now, !.res = "OK"]

\* create_*_appointment[_with_duration] up to the lock of _ensure_slot_available
CreateSession(op, service_id, start, duration_min, now_utc) ==
    [Idle EXCEPT !.op = op, !.pc = "lock", !.start = start,
                 !.end_ = compute_slot_end_for_duration(start, duration_min, service_id),
                 !.obj = [NoAppt EXCEPT !.service_id = service_id],
                 !.key = AdvisoryKey(start, service_id),
                 !.now_utc = now_utc]

\* finalize_request: create_hold_appointment[_with_duration]
finalize_request(p, service_id, start, duration_min) ==
    /\ Free(p)
    /\ RowsUsed < MaxAppts
    /\ sess' = [sess EXCEPT ![p] =
          CreateSession("create_hold_appointment", service_id, start, duration_min, now)]
    /\ UNCHANGED <<now, appts, blocks, rules, ticks, sent, job>>

\* handle_admin_price: create_admin_appointment_with_duration
handle_admin_price(p, service_id, start, duration_min) ==
    /\ Free(p)
    /\ RowsUsed < MaxAppts
    /\ sess' = [sess EXCEPT ![p] =
          CreateSession("create_admin_appointment_with_duration", service_id, start,
                        duration_min, now)]
    /\ UNCHANGED <<now, appts, blocks, rules, ticks, sent, job>>

\* _ensure_slot_available of a create: the lock is granted, the queries run,
\* and on success the new row is added to the session.
ensure_slot_available(p) ==
    /\ sess[p].pc = "lock"
    /\ sess[p].op \in CreateOps
    /\ LockFree(p, sess[p].key)
    /\ LET s == sess[p]
           r == EnsureSlotAvailable(appts, blocks, s.start, s.end_, 0)
           row == IF s.op = "create_hold_appointment"
                  THEN NewHold(s.obj.service_id, s.start, s.end_, s.now_utc)
                  ELSE NewBooked(s.obj.service_id, s.start, s.end_)
       IN sess' = [sess EXCEPT ![p] =
             [s EXCEPT !.pc = "open", !.held = {s.key}, !.res = r,
                       !.add = (r = "OK"),
                       !.obj = IF r = "OK" THEN row ELSE s.obj]]
    /\ UNCHANGED <<now, appts, blocks, rules, ticks, sent, job>>

\* A call of _ensure_slot_available with its five arguments, exclude_appt_id
\* included (0 stands for None), in a transaction of its own.
call_ensure_slot_available(p, start, end_, service_id, exclude) ==
    /\ Free(p)
    /\ sess' = [sess EXCEPT ![p] =
          [Idle EXCEPT !.op = "_ensure_slot_available", !.pc = "open", !.id = exclude,
                       !.start = start, !.end_ = end_,
                       !.key = AdvisoryKey(start, service_id),
                       !.held = {AdvisoryKey(start, service_id)},
                       !.now_utc = now,
                       !.res = EnsureSlotAvailable(appts, blocks, start, end_, exclude)]]
    /\ UNCHANGED <<now, appts, blocks, rules, ticks, sent, job>>

\* handle_admin_confirm_price: "already processed" unless Hold, else admin_confirm
\* and the messages to the client, sent inside the transaction
handle_admin_confirm_price(p, a) ==
    /\ Free(p)
    /\ a \in DOMAIN appts
    /\ sess' = [sess EXCEPT ![p] =
          IF appts[a].status # "Hold"
          THEN [Begin(p, "admin_confirm", a) EXCEPT !.res = "PROCESSED"]
          ELSE [Begin(p, "admin_confirm", a) EXCEPT !.pc = "send",
                                                   !.obj = admin_confirm(appts[a])]]
    /\ UNCHANGED <<now, appts, blocks, rules, ticks, sent, job>>

\* admin_action_reject: admin_reject, then the message to the client
admin_action_reject(p, a) ==
    /\ Free(p)
    /\ a \in DOMAIN appts
    /\ sess' = [sess EXCEPT ![p] =
          [Begin(p, "admin_reject", a) EXCEPT !.pc = "send",
                                              !.obj = admin_reject(appts[a])]]
    /\ UNCHANGED <<now, appts, blocks, rules, ticks, sent, job>>

\* client_cancel
client_cancel(p, a) ==
    /\ Free(p)
    /\ a \in DOMAIN appts
    /\ sess' = [sess EXCEPT ![p] =
          [Begin(p, "cancel_by_client", a) EXCEPT
              !.obj = cancel_by_client(appts[a], now),
              !.res = IF cancel_by_client_ok(appts[a], now) THEN "True" ELSE "False"]]
    /\ UNCHANGED <<now, appts, blocks, rules, ticks, sent, job>>

\* admin_cancel
admin_cancel(p, a) ==
    /\ Free(p)
    /\ a \in DOMAIN appts
    /\ sess' = [sess EXCEPT ![p] =
          [Begin(p, "admin_cancel_appointment", a) EXCEPT
              !.obj = admin_cancel_appointment(appts[a]),
              !.res = IF appts[a].status = "Booked" THEN "True" ELSE "False"]]
    /\ UNCHANGED <<now, appts, blocks, rules, ticks, sent, job>>

\* finalize_reschedule_request: request_reschedule up to the lock
finalize_reschedule_request(p, a, start) ==
    /\ Free(p)
    /\ a \in DOMAIN appts
    /\ sess' = [sess EXCEPT ![p] =
          IF appts[a].status # "Booked"
          THEN [Begin(p, "request_reschedule", a) EXCEPT !.res = "NOT_BOOKED"]
          ELSE [Begin(p, "request_reschedule", a) EXCEPT
                   !.pc = "lock", !.start = start,
                   !.end_ = start + (appts[a].end_dt - appts[a].start_dt),
                   !.key = AdvisoryKey(start, appts[a].service_id)]]
    /\ UNCHANGED <<now, appts, blocks, rules, ticks, sent, job>>

\* admin_finalize_reschedule: admin_reschedule_appointment up to the first lock
admin_finalize_reschedule(p, a, start) ==
    /\ Free(p)
    /\ a \in DOMAIN appts
    /\ sess' = [sess EXCEPT ![p] =
          IF appts[a].admin_comment # "master"
          THEN [Begin(p, "admin_reschedule_appointment", a) EXCEPT !.res = "NOT_ADMIN_CREATED"]
          ELSE IF appts[a].status # "Booked"
          THEN [Begin(p, "admin_reschedule_appointment", a) EXCEPT !.res = "NOT_BOOKED"]
          ELSE IF start < now
          THEN [Begin(p, "admin_reschedule_appointment", a) EXCEPT !.res = "IN_PAST"]
          ELSE [Begin(p, "admin_reschedule_appointment", a) EXCEPT
                   !.pc = "lock", !.start = start,
                   !.end_ = start + (appts[a].end_dt - appts[a].start_dt),
                   !.key = AdvisoryKey(start, appts[a].service_id)]]
    /\ UNCHANGED <<now, appts, blocks, rules, ticks, sent, job>>

\* A proposal written before the checks are made.
request_reschedule_early(o, start, r) == request_reschedule_set(o, start)

\* request_reschedule's effect on the loaded object: the raise of SLOT_TAKEN
\* or SLOT_BLOCKED comes before the assignment of the proposal
request_reschedule_result(o, start, r) ==
    IF r = "OK" THEN request_reschedule_set(o, start) ELSE o

\* request_reschedule from the lock on: the queries, then the proposal is set.
\* admin_reschedule_appointment goes on to confirm_reschedule in the same
\* transaction.
request_reschedule(p) ==
    /\ sess[p].pc = "lock"
    /\ sess[p].op \in {"request_reschedule", "admin_reschedule_appointment"}
    /\ LockFree(p, sess[p].key)
    /\ LET s == sess[p]
           r == reschedule_check(appts, blocks, s.start, s.end_, s.id)
       IN sess' = [sess EXCEPT ![p] =
             IF r # "OK"
             THEN [s EXCEPT !.pc = "open", !.held = {s.key}, !.res = r,
                            !.obj = request_reschedule_result(s.obj, s.start, r)]
             ELSE [s EXCEPT !.pc = IF s.op = "request_reschedule" THEN "open" ELSE "lock2",
                            !.held = {s.key},
                            !.obj = request_reschedule_result(s.obj, s.start, r)]]
    /\ UNCHANGED <<now, appts, blocks, rules, ticks, sent, job>>

\* A key made of the appointment's current start.
confirm_reschedule_key_of_start(o) == AdvisoryKey(o.start_dt, o.service_id)

\* The lock key of confirm_reschedule: the proposed start and the service
confirm_reschedule_key(o) == AdvisoryKey(o.proposed_alt_start_dt, o.service_id)

\* admin_reschedule_confirm: confirm_reschedule up to the lock
admin_reschedule_confirm(p, a) ==
    /\ Free(p)
    /\ a \in DOMAIN appts
    /\ sess' = [sess EXCEPT ![p] =
          IF appts[a].proposed_alt_start_dt = NULL
          THEN [Begin(p, "confirm_reschedule", a) EXCEPT !.res = "NO_REQUEST"]
          ELSE IF appts[a].status # "Booked"
          THEN [Begin(p, "confirm_reschedule", a) EXCEPT !.pc = "send"]
          ELSE [Begin(p, "confirm_reschedule", a) EXCEPT
                   !.pc = "lock2", !.start = appts[a].proposed_alt_start_dt,
                   !.end_ = appts[a].proposed_alt_start_dt
                            + (appts[a].end_dt - appts[a].start_dt),
                   !.key = AdvisoryKey(appts[a].proposed_alt_start_dt,
                                       appts[a].service_id)]]
    /\ UNCHANGED <<now, appts, blocks, rules, ticks, sent, job>>

\* confirm_reschedule from the lock on: the queries, then the move.  After it
\* admin_reschedule_confirm sends its message inside the transaction,
\* admin_finalize_reschedule sends it inside a try.
confirm_reschedule(p) ==
    /\ sess[p].pc = "lock2"
    /\ LockFree(p, confirm_reschedule_key(sess[p].obj))
    /\ LET s == sess[p]
           k == confirm_reschedule_key(s.obj)
           r == reschedule_check(appts, blocks, s.start, s.end_, s.id)
       IN sess' = [sess EXCEPT ![p] =
             IF r # "OK"
             THEN [s EXCEPT !.pc = "open", !.key = k, !.held = s.held \cup {k}, !.res = r]
             ELSE [s EXCEPT !.pc = IF s.op = "confirm_reschedule" THEN "send" ELSE "open",
                            !.key = k, !.held = s.held \cup {k},
                            !.obj = confirm_reschedule_set(s.obj, s.start, s.end_)]]
    /\ UNCHANGED <<now, appts, blocks, rules, ticks, sent, job>>

\* admin_reschedule_reject
admin_reschedule_reject(p, a) ==
    /\ Free(p)
    /\ a \in DOMAIN appts
    /\ sess' = [sess EXCEPT ![p] =
          IF appts[a].proposed_alt_start_dt = NULL
          THEN [Begin(p, "reject_reschedule", a) EXCEPT !.res = "NO_REQUEST"]
          ELSE [Begin(p, "reject_reschedule", a) EXCEPT
                   !.pc = "send", !.obj = reject_reschedule(appts[a])]]
    /\ UNCHANGED <<now, appts, blocks, rules, ticks, sent, job>>

\* admin_visit_confirm
admin_visit_confirm(p, a) ==
    /\ Free(p)
    /\ a \in DOMAIN appts
    /\ sess' = [sess EXCEPT ![p] =
          [Begin(p, "admin_visit_confirm", a) EXCEPT
              !.obj = admin_visit_confirm_set(appts[a], now)]]
    /\ UNCHANGED <<now, appts, blocks, rules, ticks, sent, job>>

\* handle_admin_visit_price: "-" keeps the price, a number overrides it
handle_admin_visit_price(p, a, price_override) ==
    /\ Free(p)
    /\ a \in DOMAIN appts
    /\ sess' = [sess EXCEPT ![p] =
          [Begin(p, "handle_admin_visit_price", a) EXCEPT
              !.obj = handle_admin_visit_price_set(appts[a], now, price_override)]]
    /\ UNCHANGED <<now, appts, blocks, rules, ticks, sent, job>>

\* reminder_confirm
reminder_confirm(p, a) ==
    /\ Free(p)
    /\ a \in DOMAIN appts
    /\ sess' = [sess EXCEPT ![p] =
          [Begin(p, "reminder_confirm", a) EXCEPT
              !.obj = reminder_confirm_set(appts[a])]]
    /\ UNCHANGED <<now, appts, blocks, rules, ticks, sent, job>>

\* _finalize_break without repetition: create_blocked_interval, the block is
\* added to the session when both queries come back empty
finalize_break(p, start, duration_min) ==
    /\ Free(p)
    /\ \/ BlocksUsed < MaxBlocks
       \/ create_blocked_interval_check(appts, blocks, start, start + duration_min) # "OK"
    /\ sess' = [sess EXCEPT ![p] =
          [Idle EXCEPT !.op = "create_blocked_interval", !.pc = "open",
                       !.start = start, !.end_ = start + duration_min,
                       !.now_utc = now,
                       !.res = create_blocked_interval_check(appts, blocks, start,
                                                             start + duration_min)]]
    /\ UNCHANGED <<now, appts, blocks, rules, ticks, sent, job>>

\* admin_cancel_break: delete_blocked_interval
admin_cancel_break(p, b) ==
    /\ Free(p)
    /\ b \in DOMAIN blocks
    /\ sess' = [sess EXCEPT ![p] =
          [Idle EXCEPT !.op = "delete_blocked_interval", !.pc = "open", !.id = b,
                       !.now_utc = now,
                       !.res = IF blocks[b].start_dt = NULL THEN "False" ELSE "True"]]
    /\ UNCHANGED <<now, appts, blocks, rules, ticks, sent, job>>

\* _sync_break_rules in a handler's transaction (flow_dates and the others):
\* generate_breaks_from_rules on the rows the session reads; the new blocks and
\* the rules' new last_generated_date are pending until the commit.
sync_break_rules(p, horizon_days) ==
    /\ Free(p)
    /\ LET g == generate_breaks_from_rules(appts, blocks, rules, now, horizon_days)
       IN sess' = [sess EXCEPT ![p] =
             [Idle EXCEPT !.op = "generate_breaks_from_rules", !.pc = "open",
                          !.id = horizon_days, !.now_utc = now, !.res = "OK",
                          !.gen = SubSeq(g.bl, Len(blocks) + 1, Len(g.bl)),
                          !.rsnap = rules, !.robj = g.rules,
                          !.created = g.created, !.skipped = g.skipped]]
    /\ UNCHANGED <<now, appts, blocks, rules, ticks, sent, job>>

\* flow_slots (and _admin_send_time_prompt): get_settings, _sync_break_rules,
\* then the slot calculator, which also sees the blocks pending in the session.
flow_slots(p, st, horizon_days, service_id, day, duration_min) ==
    /\ Free(p)
    /\ LET g == generate_breaks_from_rules(appts, blocks, rules, now, horizon_days)
       IN sess' = [sess EXCEPT ![p] =
             [Idle EXCEPT !.op = "list_available_slots", !.pc = "open",
                          !.id = horizon_days, !.now_utc = now, !.res = "OK",
                          !.gen = SubSeq(g.bl, Len(blocks) + 1, Len(g.bl)),
                          !.rsnap = rules, !.robj = g.rules,
                          !.created = g.created, !.skipped = g.skipped,
                          !.obj = [NoAppt EXCEPT !.service_id = service_id],
                          !.day = day, !.dur = duration_min, !.settings = st,
                          !.slots = list_available_slots_for_duration(
                                       appts, g.bl, st, service_id, day,
                                       duration_min, now)]]
    /\ UNCHANGED <<now, appts, blocks, rules, ticks, sent, job>>

\* context.bot.send_message awaited inside "async with s.begin()" with no try
\* around it: when it raises, the exception leaves the block and the
\* transaction is rolled back.
send_message(p, delivered) ==
    /\ sess[p].pc = "send"
    /\ sess' = [sess EXCEPT ![p] = IF delivered THEN [sess[p] EXCEPT !.pc = "open"] ELSE Idle]
    /\ UNCHANGED <<now, appts, blocks, rules, ticks, sent, job>>

\* The end of "async with s.begin()": the flush and the COMMIT, which also
\* releases the transaction's advisory locks.
commit(p) ==
    /\ sess[p].pc = "open"
    /\ LET s == sess[p] IN
       /\ appts' = IF s.add THEN Append(appts, s.obj)
                   ELSE IF s.snap # NoAppt /\ s.id \in DOMAIN appts
                   THEN [appts EXCEPT ![s.id] = Flush(appts[s.id], s.snap, s.obj)]
                   ELSE appts
       /\ blocks' = IF s.op = "create_blocked_interval" /\ s.res = "OK"
                    THEN Append(blocks, [start_dt |-> s.start, end_dt |-> s.end_])
                    ELSE IF s.op = "delete_blocked_interval" /\ s.res = "True"
                    THEN [blocks EXCEPT ![s.id] = NoBlock]
                    ELSE blocks \o s.gen
       /\ rules' = [i \in DOMAIN rules |->
                       IF i \in DOMAIN s.robj /\ s.robj[i] # s.rsnap[i]
                       THEN [rules[i] EXCEPT !.last_generated_date =
                                                 s.robj[i].last_generated_date]
                       ELSE rules[i]]
    /\ sess' = [sess EXCEPT ![p] = Idle]
    /\ UNCHANGED <<now, ticks, sent, job>>

---------------------------------------------------------------------------
(* The clock *)

advance_clock ==
    /\ now < MaxNow
    /\ now' = now + 1
    /\ UNCHANGED <<appts, blocks, rules, sess, ticks, sent, job>>

---------------------------------------------------------------------------
(* scheduler.tick: the hold sweeper *)

TickIdle == [pc |-> "idle", now_utc |-> NULL, expired |-> {}]

\* A query that misses the holds expiring at this very instant.
ExpiredHoldsStrict(rows, now_utc) ==
    {i \in DOMAIN rows :
        /\ rows[i].status = "Hold"
        /\ rows[i].hold_expires_at # NULL
        /\ rows[i].hold_expires_at < now_utc}

\* The sweeper's query: Hold, hold_expires_at not null and <= now_utc
ExpiredHolds(rows, now_utc) ==
    {i \in DOMAIN rows :
        /\ rows[i].status = "Hold"
        /\ rows[i].hold_expires_at # NULL
        /\ rows[i].hold_expires_at <= now_utc}

\* The job queue starts a run on the first sweeper that is not running.
TickFree(t) == ticks[t].pc = "idle" /\ \A u \in Ticks : u < t => ticks[u].pc # "idle"

\* tick up to its commit: the query; with no row the run is over, otherwise
\* every selected object gets status Rejected and a notification is prepared.
tick_select(t) ==
    /\ TickFree(t)
    /\ ExpiredHolds(appts, now) # {}
    /\ ticks' = [ticks EXCEPT ![t] =
          [pc |-> "selected", now_utc |-> now, expired |-> ExpiredHolds(appts, now)]]
    /\ UNCHANGED <<now, appts, blocks, rules, sess, sent, job>>

\* A flush that writes nothing.
tick_flush_nothing(rows, expired) == rows

\* A flush that writes only the first of the selected rows.
tick_flush_first(rows, expired) ==
    [i \in DOMAIN rows |->
        IF i \in expired /\ (\A j \in expired : i <= j)
        THEN [rows[i] EXCEPT !.status = "Rejected"] ELSE rows[i]]

\* The rows a sweeper's flush writes: status, changed from the loaded Hold.
tick_flush(rows, expired) ==
    [i \in DOMAIN rows |->
        IF i \in expired THEN [rows[i] EXCEPT !.status = "Rejected"] ELSE rows[i]]

\* await s.commit()
tick_commit(t) ==
    /\ ticks[t].pc = "selected"
    /\ appts' = tick_flush(appts, ticks[t].expired)
    /\ ticks' = [ticks EXCEPT ![t].pc = "sending"]
    /\ UNCHANGED <<now, blocks, rules, sess, sent, job>>

\* One turn of the loop over notifications; a failed send is logged and skipped.
tick_send(t, a, delivered) ==
    /\ ticks[t].pc = "sending"
    /\ a \in ticks[t].expired
    /\ sent' = IF delivered THEN [sent EXCEPT ![a] = @ + 1] ELSE sent
    /\ ticks' = [ticks EXCEPT ![t] =
          IF ticks[t].expired = {a} THEN TickIdle
          ELSE [ticks[t] EXCEPT !.expired = @ \ {a}]]
    /\ UNCHANGED <<now, appts, blocks, rules, sess, job>>

\* The process stops in the middle of a run: an open transaction is rolled
\* back, prepared notifications are lost.
tick_crash(t) ==
    /\ ticks[t].pc # "idle"
    /\ ticks' = [ticks EXCEPT ![t] = TickIdle]
    /\ UNCHANGED <<now, appts, blocks, rules, sess, sent, job>>

---------------------------------------------------------------------------
(* reminders.check_and_send_reminders: reminders, then completion *)

JobIdle == [pc |-> "idle", now_utc |-> NULL, marked24 |-> {}, marked2 |-> {}, done |-> {}]

\* q48 / q2: Booked, flag not yet set, start inside the window
DueReminders(rows, flag, from_) ==
    {i \in DOMAIN rows :
        /\ rows[i].status = "Booked"
        /\ rows[i][flag] = FALSE
        /\ rows[i].start_dt >= from_
        /\ rows[i].start_dt < from_ + reminder_win}

\* q_aftercare: Booked and ended
Ended(rows, now_utc) ==
    {i \in DOMAIN rows : rows[i].status = "Booked" /\ rows[i].end_dt <= now_utc}

\* The first query and its loop: each reminder that was delivered is followed
\* by UPDATE ... SET reminder_24h_sent = true WHERE id.
job_remind_48h(delivered) ==
    /\ job.pc = "idle"
    /\ delivered \subseteq DueReminders(appts, "reminder_24h_sent", now + reminder_48h_lead)
    /\ job' = [JobIdle EXCEPT !.pc = "q2", !.now_utc = now, !.marked24 = delivered]
    /\ UNCHANGED <<now, appts, blocks, rules, sess, ticks, sent>>

\* The second query and its loop, the same for reminder_2h_sent.
job_remind_2h(delivered) ==
    /\ job.pc = "q2"
    /\ delivered \subseteq DueReminders(appts, "reminder_2h_sent",
                                        job.now_utc + reminder_2h_lead)
    /\ job' = [job EXCEPT !.pc = "commit1", !.marked2 = delivered]
    /\ UNCHANGED <<now, appts, blocks, rules, sess, ticks, sent>>

\* The rows after the first session's UPDATE statements
job_mark(rows, marked24, marked2) ==
    [i \in DOMAIN rows |->
        [rows[i] EXCEPT
            !.reminder_24h_sent = IF i \in marked24 THEN TRUE ELSE @,
            !.reminder_2h_sent = IF i \in marked2 THEN TRUE ELSE @]]

\* await session.commit() of the first session
job_commit_reminders ==
    /\ job.pc = "commit1"
    /\ appts' = job_mark(appts, job.marked24, job.marked2)
    /\ job' = [job EXCEPT !.pc = "aftercare", !.marked24 = {}, !.marked2 = {}]
    /\ UNCHANGED <<now, blocks, rules, sess, ticks, sent>>

\* The second session's query, with the time taken at the start of the job
job_select_aftercare ==
    /\ job.pc = "aftercare"
    /\ job' = [job EXCEPT !.pc = "commit2", !.done = Ended(appts, job.now_utc)]
    /\ UNCHANGED <<now, appts, blocks, rules, sess, ticks, sent>>

\* The rows after UPDATE ... SET status = Completed WHERE id = appt.id
job_complete(rows, done) ==
    [i \in DOMAIN rows |->
        IF i \in done THEN [rows[i] EXCEPT !.status = "Completed"] ELSE rows[i]]

\* The messages, the UPDATE statements and the commit of the second session
job_commit_completed ==
    /\ job.pc = "commit2"
    /\ appts' = job_complete(appts, job.done)
    /\ job' = JobIdle
    /\ UNCHANGED <<now, blocks, rules, sess, ticks, sent>>

---------------------------------------------------------------------------
(* The system *)

Init ==
    /\ now = 0
    /\ appts = <<>>
    /\ blocks = <<>>
    /\ rules = <<>>
    /\ sess = [p \in Procs |-> Idle]
    /\ ticks = [t \in Ticks |-> TickIdle]
    /\ sent = [a \in 1..MaxAppts |-> 0]
    /\ job = JobIdle

Reserve(procs, services, starts) ==
    \E p \in procs :
        \/ \E service_id \in services, start \in starts :
             \E duration_min \in DurationInputs(service_id) :
                \/ finalize_request(p, service_id, start, duration_min)
                \/ handle_admin_price(p, service_id, start, duration_min)
        \/ ensure_slot_available(p)
        \/ commit(p)

Decide(procs) ==
    \E p \in procs, a \in 1..MaxAppts :
        \/ handle_admin_confirm_price(p, a)
        \/ admin_action_reject(p, a)
        \/ client_cancel(p, a)
        \/ admin_cancel(p, a)
        \/ \E delivered \in BOOLEAN : send_message(p, delivered)

Reschedule(procs, starts) ==
    \E p \in procs :
        \/ \E a \in 1..MaxAppts :
             \/ \E start \in starts :
                  \/ finalize_reschedule_request(p, a, start)
                  \/ admin_finalize_reschedule(p, a, start)
             \/ admin_reschedule_confirm(p, a)
             \/ admin_reschedule_reject(p, a)
        \/ request_reschedule(p)
        \/ confirm_reschedule(p)
        \/ \E delivered \in BOOLEAN : send_message(p, delivered)

Breaks(procs, starts, durations) ==
    \E p \in procs :
        \/ \E start \in starts, duration_min \in durations :
             finalize_break(p, start, duration_min)
        \/ \E b \in 1..MaxBlocks : admin_cancel_break(p, b)

Expand(procs) ==
    \E p \in procs, horizon_days \in 0..MaxHorizon : sync_break_rules(p, horizon_days)

\* The rows of table settings that get_settings may find.
SettingsViews ==
    [slot_step_min : {2, 4}, min_lead_time_min : {0, 1},
     work_start : {0, 1, 2}, work_end : {6, 7}]

Slots(procs, views, horizons) ==
    \E p \in procs, st \in views, horizon_days \in horizons,
       service_id \in ServiceIds, day \in 0..MaxDay :
        \E duration_min \in DurationInputs(service_id) :
            flow_slots(p, st, horizon_days, service_id, day, duration_min)

Visit(procs) ==
    \E p \in procs, a \in 1..MaxAppts :
        \/ admin_visit_confirm(p, a)
        \/ reminder_confirm(p, a)

\* What the operator may type for the final price: "-" or a number
PriceInputs == {NULL, 1}

VisitPrice(procs) ==
    \E p \in procs, a \in 1..MaxAppts, price_override \in PriceInputs :
        handle_admin_visit_price(p, a, price_override)

Sweeper ==
    \E t \in Ticks :
        \/ tick_select(t)
        \/ tick_commit(t)
        \/ \E a \in 1..MaxAppts, delivered \in BOOLEAN : tick_send(t, a, delivered)
        \/ tick_crash(t)

Reminders ==
    \/ \E delivered \in SUBSET (1..MaxAppts) :
         \/ job_remind_48h(delivered)
         \/ job_remind_2h(delivered)
    \/ job_commit_reminders
    \/ job_select_aftercare
    \/ job_commit_completed

Next ==
    \/ Reserve(Procs, ServiceIds, Starts)
    \/ Decide(Procs)
    \/ Reschedule(Procs, Starts)
    \/ Breaks(Procs, Starts, BreakDurations)
    \/ Expand(Procs)
    \/ Slots(Procs, SettingsViews, 0..MaxHorizon)
    \/ Visit(Procs)
    \/ VisitPrice(Procs)
    \/ Sweeper
    \/ Reminders
    \/ advance_clock

Spec == Init /\ [][Next]_vars

---------------------------------------------------------------------------
(* Concurrent reservations and breaks *)

NextBooking ==
    \/ Reserve(Procs, ServiceIds, Starts)
    \/ Breaks(Procs, Starts, BreakDurations)

SpecBooking == Init /\ [][NextBooking]_vars

---------------------------------------------------------------------------
(* Updates handled one at a time, as the Application of main.py does without *)
(* concurrent_updates; the reminder job runs in between.                     *)

NextSerial ==
    \/ Reserve({1}, {1}, Starts)
    \/ Reschedule({1}, Starts)
    \/ Breaks({1}, Starts, {1})
    \/ Visit({1})
    \/ Reminders

SpecSerial == Init /\ [][NextSerial]_vars

---------------------------------------------------------------------------
(* The life of an appointment: handlers, the two jobs and the clock *)

NextLife ==
    \/ Reserve({1}, {1}, {0})
    \/ Decide({1})
    \/ Sweeper
    \/ Reminders
    \/ advance_clock

SpecLife == Init /\ [][NextLife]_vars

---------------------------------------------------------------------------
(* Holds and the sweeper: requests, the operator's decisions, overlapping *)
(* sweeper runs and the clock                                             *)

NextSweep ==
    \/ Reserve({1}, {1}, {0, 2})
    \/ Decide({1})
    \/ Sweeper
    \/ advance_clock

SpecSweep == Init /\ [][NextSweep]_vars

---------------------------------------------------------------------------
(* N reservations for one start and service, all waiting for the slot's lock; *)
(* the store holds one earlier appointment that leaves the slot free.         *)

\* A row as a create leaves it, in one of the statuses it can take later
RowOf(status, service_id, start) ==
    [NoAppt EXCEPT !.status = status, !.start_dt = start,
                   !.end_dt = compute_slot_end(start, service_id),
                   !.service_id = service_id]

StoredRows ==
    {RowOf(status, service_id, start) :
        status \in {"Hold", "Booked", "Canceled"},
        service_id \in ServiceIds, start \in Starts}

InitRace ==
    /\ now = 0
    /\ blocks = <<>>
    /\ rules = <<>>
    /\ ticks = [t \in Ticks |-> TickIdle]
    /\ sent = [a \in 1..MaxAppts |-> 0]
    /\ job = JobIdle
    /\ \E service_id \in ServiceIds, start \in Starts, ops \in [Procs -> CreateOps] :
          /\ sess = [p \in Procs |->
                CreateSession(ops[p], service_id, start, ServiceDuration(service_id), 0)]
          /\ appts \in {<<r>> : r \in {x \in StoredRows :
                EnsureSlotAvailable(<<x>>, <<>>, start,
                                    compute_slot_end(start, service_id), 0) = "OK"}}

NextRace == \E p \in Procs : ensure_slot_available(p) \/ commit(p)

SpecRace == InitRace /\ [][NextRace]_vars

---------------------------------------------------------------------------
(* The availability check on a store that does not change *)

StoredBlocks ==
    {[start_dt |-> start, end_dt |-> start + duration_min] :
        start \in Starts, duration_min \in BreakDurations}

InitCheck ==
    /\ now = 0
    /\ appts \in {<<>>} \cup {<<r>> : r \in StoredRows}
                 \cup {<<r1, r2>> : r1 \in StoredRows, r2 \in StoredRows}
    /\ blocks \in {<<>>} \cup {<<b>> : b \in StoredBlocks}
    /\ rules = <<>>
    /\ sess = [p \in Procs |-> Idle]
    /\ ticks = [t \in Ticks |-> TickIdle]
    /\ sent = [a \in 1..MaxAppts |-> 0]
    /\ job = JobIdle

NextCheck ==
    \E start \in Starts, service_id \in ServiceIds, exclude \in 0..MaxAppts :
        call_ensure_slot_available(1, start, compute_slot_end(start, service_id),
                                   service_id, exclude)

SpecCheck == InitCheck /\ [][NextCheck]_vars

---------------------------------------------------------------------------
(* Properties *)

\* C1: no two distinct appointments whose status is Hold or Booked have
\* intersecting [start, end) ranges, whatever the interleaving of the writers,
\* also when they take locks on different slot keys.
NoOverlap ==
    \A i \in DOMAIN appts : \A j \in DOMAIN appts :
        (i < j /\ ActiveStatus(appts[i].status) /\ ActiveStatus(appts[j].status))
            => ~(appts[i].start_dt < appts[j].end_dt /\ appts[j].start_dt < appts[i].end_dt)

\* C2: of N >= 2 concurrent reservations for the same start and service on a
\* free slot exactly one commits its appointment, every other one fails with
\* SLOT_TAKEN.  The store starts with one earlier row, so the winner's row is
\* the second: a reservation that succeeded saw no winner before it, one that
\* failed failed with SLOT_TAKEN after the winner's commit, and when all have
\* finished exactly one row was added and it is active.
RaceExactlyOne ==
    /\ \A p \in Procs : sess[p].pc = "open" =>
          \/ sess[p].res = "OK" /\ Len(appts) = 1
          \/ sess[p].res = "SLOT_TAKEN" /\ Len(appts) = 2
    /\ Cardinality({p \in Procs : sess[p].pc = "open" /\ sess[p].res = "OK"}) <= 1
    /\ Len(appts) <= 2
    /\ (\A p \in Procs : sess[p].pc = "idle") =>
          Len(appts) = 2 /\ ActiveStatus(appts[2].status)

\* C2, witness: the winner has committed and a loser has its SLOT_TAKEN.
RaceLoserSeen ==
    \E p \in Procs :
        sess[p].pc = "open" /\ sess[p].res = "SLOT_TAKEN" /\ Len(appts) = 2

\* C4: on a fixed store the check fails with SLOT_TAKEN exactly when an active
\* appointment other than the excluded one has a.start < end and a.end > start;
\* otherwise with SLOT_BLOCKED exactly when a blocked interval has
\* b.start < end and b.end > start; otherwise it succeeds.  So with both an
\* appointment and a block in the way the answer is SLOT_TAKEN, and ranges
\* that only touch do not conflict.
CheckContract ==
    \A p \in Procs :
        (sess[p].op = "_ensure_slot_available" /\ sess[p].pc = "open") =>
            LET taken == \E i \in DOMAIN appts :
                            /\ i # sess[p].id
                            /\ appts[i].status \in {"Hold", "Booked"}
                            /\ appts[i].start_dt < sess[p].end_
                            /\ appts[i].end_dt > sess[p].start
                blocked == \E b \in DOMAIN blocks :
                            /\ blocks[b].start_dt < sess[p].end_
                            /\ blocks[b].end_dt > sess[p].start
            IN /\ (sess[p].res = "SLOT_TAKEN") <=> taken
               /\ (sess[p].res = "SLOT_BLOCKED") <=> (~taken /\ blocked)
               /\ (sess[p].res = "OK") <=> (~taken /\ ~blocked)

\* C4, witness: a check that succeeded next to an active appointment ending
\* exactly at its start, with the excluded appointment lying across its range.
CheckTouching ==
    \E p \in Procs :
        /\ sess[p].op = "_ensure_slot_available" /\ sess[p].pc = "open"
        /\ sess[p].res = "OK"
        /\ sess[p].id \in DOMAIN appts
        /\ ActiveStatus(appts[sess[p].id].status)
        /\ Overlaps(appts[sess[p].id].start_dt, appts[sess[p].id].end_dt,
                    sess[p].start, sess[p].end_)
        /\ \E i \in DOMAIN appts :
              ActiveStatus(appts[i].status) /\ appts[i].end_dt = sess[p].start

\* C3: once an appointment's status is Rejected, Canceled or Completed, no
\* step of any handler or job changes it again.
TerminalIsFinal ==
    [][\A i \in DOMAIN appts :
          appts[i].status \in {"Rejected", "Canceled", "Completed"}
              => appts'[i].status = appts[i].status]_vars

\* C5: a sweeper run started at time now selects exactly the appointments
\* that are Hold with a non-null hold_expires_at <= now (a Hold expiring later
\* is not selected and stays Hold), and its commit sets the status of exactly
\* the selected rows to Rejected and changes nothing else in the store.
SweepExact ==
    [][\A t \in Ticks :
          /\ (ticks[t].pc = "idle" /\ ticks'[t].pc = "selected") =>
                /\ ticks'[t].now_utc = now
                /\ ticks'[t].expired =
                      {i \in DOMAIN appts :
                          /\ appts[i].status = "Hold"
                          /\ appts[i].hold_expires_at # NULL
                          /\ appts[i].hold_expires_at <= now}
                /\ appts' = appts
          /\ (ticks[t].pc = "selected" /\ ticks'[t].pc = "sending") =>
                /\ DOMAIN appts' = DOMAIN appts
                /\ \A i \in DOMAIN appts :
                      IF i \in ticks[t].expired
                      THEN appts'[i] = [appts[i] EXCEPT !.status = "Rejected"]
                      ELSE appts'[i] = appts[i]]_vars

\* C5, witness: a run has committed; the hold that expired exactly at the
\* run's time is Rejected, a hold expiring later was left out and is still Hold.
SweepLeftFutureHold ==
    \E t \in Ticks :
        /\ ticks[t].pc = "sending"
        /\ \E i \in ticks[t].expired :
              /\ appts[i].status = "Rejected"
              /\ appts[i].hold_expires_at = ticks[t].now_utc
        /\ \E j \in DOMAIN appts :
              /\ j \notin ticks[t].expired
              /\ appts[j].status = "Hold"
              /\ appts[j].hold_expires_at > ticks[t].now_utc

\* C6: over all sweeper runs, overlapping or interrupted ones included, at
\* most one expiry notification is sent for any hold.
NotifiedOnce == \A a \in DOMAIN sent : sent[a] <= 1

\* The span [start, end_) meets an active appointment other than `self`
SpanTaken(start, end_, self) ==
    \E i \in DOMAIN appts :
        /\ i # self
        /\ appts[i].status \in {"Hold", "Booked"}
        /\ appts[i].start_dt < end_ /\ appts[i].end_dt > start

\* The span [start, end_) meets a blocked interval
SpanBlocked(start, end_) ==
    \E b \in DOMAIN blocks :
        blocks[b].start_dt # NULL /\ blocks[b].start_dt < end_ /\ blocks[b].end_dt > start

\* C7: a reschedule proposal for an appointment that is not Booked fails with
\* NOT_BOOKED and changes nothing; for a Booked appointment whose new span
\* [newStart, newStart + (end - start)) meets no other active appointment (its
\* own span is ignored) and no blocked interval it sets proposed_alt_start_dt
\* to newStart and leaves status, start, end and every other column as they
\* were, on the loaded object and in the stored row.
ProposeContract ==
    [][\A p \in Procs :
          LET s == sess[p]
              s2 == sess'[p]
              new_end == s.start + (s.snap.end_dt - s.snap.start_dt)
          IN /\ (s.pc = "idle" /\ s2.op = "request_reschedule") =>
                   /\ (s2.res = "NOT_BOOKED") <=> (appts[s2.id].status # "Booked")
                   /\ (s2.res = "NOT_BOOKED") => (s2.pc = "open" /\ s2.obj = appts[s2.id])
                   /\ (s2.res # "NOT_BOOKED") => (s2.pc = "lock" /\ s2.obj = appts[s2.id])
             /\ (s.op = "request_reschedule" /\ s.pc = "lock" /\ s2.pc = "open"
                   /\ ~SpanTaken(s.start, new_end, s.id)
                   /\ ~SpanBlocked(s.start, new_end)) =>
                   /\ s2.res = "OK"
                   /\ s2.obj = [s.snap EXCEPT !.proposed_alt_start_dt = s.start]
             /\ (s.op = "request_reschedule" /\ s.pc = "open" /\ s2.pc = "idle") =>
                   IF s.res = "OK"
                   THEN appts' = [appts EXCEPT ![s.id].proposed_alt_start_dt = s.start]
                   ELSE appts' = appts]_vars

\* C7, witness: a proposal was accepted whose new span runs across the
\* appointment's own current span.
ProposedAcrossOwnSpan ==
    \E p \in Procs :
        /\ sess[p].op = "request_reschedule" /\ sess[p].pc = "open"
        /\ sess[p].res = "OK"
        /\ sess[p].obj.proposed_alt_start_dt = sess[p].start
        /\ sess[p].start # sess[p].snap.start_dt
        /\ Overlaps(sess[p].snap.start_dt, sess[p].snap.end_dt, sess[p].start, sess[p].end_)

RejectContract ==
    [][\A p \in Procs :
          LET s == sess[p]
              s2 == sess'[p]
          IN /\ (s.pc = "idle" /\ s2.op = "reject_reschedule") =>
                   /\ s2.pc \in {"open", "send"}
                   /\ s2.snap = appts[s2.id]
                   /\ IF appts[s2.id].proposed_alt_start_dt # NULL
                      THEN s2.obj = [appts[s2.id] EXCEPT !.proposed_alt_start_dt = NULL]
                      ELSE s2.obj = appts[s2.id]
             /\ (s.op = "reject_reschedule" /\ s.pc = "open" /\ s2.pc = "idle") =>
                   /\ blocks' = blocks
                   /\ IF s.snap.proposed_alt_start_dt # NULL
                      THEN appts' = [appts EXCEPT ![s.id].proposed_alt_start_dt = NULL]
                      ELSE appts' = appts]_vars

\* C9, witness: a rejection has cleared a pending proposal on its object.
ProposalRejected ==
    \E p \in Procs :
        /\ sess[p].op = "reject_reschedule" /\ sess[p].pc = "open"
        /\ sess[p].snap.proposed_alt_start_dt # NULL
        /\ sess[p].obj.proposed_alt_start_dt = NULL
        /\ sess[p].obj.status = "Booked"

\* C10: a pending proposal reserves nothing.  When at approval time another
\* active appointment lies over the proposed span the approval fails with
\* SLOT_TAKEN, when only a blocked interval lies over it with SLOT_BLOCKED;
\* the appointment's object is left as loaded and the commit of the failed
\* approval changes no row, so start, end and the proposal stay.
ApproveRevalidates ==
    [][\A p \in Procs :
          LET s == sess[p]
              s2 == sess'[p]
              P == s.obj.proposed_alt_start_dt
              new_end == P + (s.obj.end_dt - s.obj.start_dt)
          IN /\ (s.op = "confirm_reschedule" /\ s.pc = "lock2"
                   /\ s2.pc \in {"open", "send"}) =>
                   /\ SpanTaken(P, new_end, s.id) =>
                         (s2.res = "SLOT_TAKEN" /\ s2.obj = s.snap)
                   /\ (~SpanTaken(P, new_end, s.id) /\ SpanBlocked(P, new_end)) =>
                         (s2.res = "SLOT_BLOCKED" /\ s2.obj = s.snap)
             /\ (s.op = "confirm_reschedule" /\ s.pc = "open" /\ s2.pc = "idle"
                   /\ s.res \in {"SLOT_TAKEN", "SLOT_BLOCKED"}) =>
                   appts' = appts]_vars

\* C10, witness: an approval failed with SLOT_TAKEN on a hold that was
\* committed over the proposed span, the appointment still at its old start.
ApprovalFoundSlotTaken ==
    \E p \in Procs :
        /\ sess[p].op = "confirm_reschedule" /\ sess[p].pc = "open"
        /\ sess[p].res = "SLOT_TAKEN"
        /\ sess[p].obj.start_dt = appts[sess[p].id].start_dt
        /\ sess[p].obj.proposed_alt_start_dt # NULL
        /\ \E i \in DOMAIN appts :
              /\ i # sess[p].id
              /\ appts[i].status = "Hold"
              /\ Overlaps(appts[i].start_dt, appts[i].end_dt, sess[p].start, sess[p].end_)

---------------------------------------------------------------------------
(* Break expansion on its own: a store of rules as _finalize_break and earlier
   expansions leave them (last_generated_date null or a date of the rule's
   own sequence), at most one appointment, blocks deleted or never created *)

RuleDurations == {1, day_min + 1}

StoredRules ==
    {BreakRule(repeat, start_date, start_time, duration_min,
               IF k < 0 THEN NULL
               ELSE start_date + k * (IF repeat = "daily" THEN 1 ELSE week_len)) :
        repeat \in {"daily", "weekly"}, start_date \in 0..1,
        start_time \in {1, 2}, duration_min \in RuleDurations,
        k \in -1..1}

InitBreaks ==
    /\ now \in 0..MaxNow
    /\ appts \in {<<>>} \cup {<<RowOf(status, 1, start)>> :
                                  status \in {"Booked", "Canceled"}, start \in Starts}
    /\ blocks = <<>>
    /\ rules \in UNION {[1..n -> StoredRules] : n \in 1..MaxRules}
    /\ sess = [p \in Procs |-> Idle]
    /\ ticks = [t \in Ticks |-> TickIdle]
    /\ sent = [a \in 1..MaxAppts |-> 0]
    /\ job = JobIdle

NextBreaks == Expand({1}) \/ commit(1)

SpecBreaks == InitBreaks /\ [][NextBreaks]_vars

\* C13: when an expansion has run, a second expansion with the same horizon
\* at the same time on the store the first one leaves (its new blocks
\* appended, its rules written) returns created = 0 and adds no block.
ExpandTwiceCreatesNothing ==
    \A p \in Procs :
        sess[p].op = "generate_breaks_from_rules" =>
            LET s == sess[p]
                second == generate_breaks_from_rules(appts, blocks \o s.gen, s.robj,
                                                     s.now_utc, s.id)
            IN /\ second.created = 0
               /\ second.bl = blocks \o s.gen

\* C13, witness: a first expansion created a block for a rule on its start
\* date, which the second expansion takes up again as a candidate.
ExpandedOnStartDate ==
    \E p \in Procs :
        /\ sess[p].op = "generate_breaks_from_rules"
        /\ sess[p].created > 0
        /\ \E i \in DOMAIN sess[p].robj :
              /\ sess[p].robj[i].last_generated_date = sess[p].robj[i].start_date
              /\ sess[p].rsnap[i].last_generated_date = NULL
              /\ \E b \in DOMAIN sess[p].gen :
                    sess[p].gen[b].start_dt =
                        to_utc(candidate_break_start(sess[p].robj[i],
                                                     sess[p].robj[i].start_date))

---------------------------------------------------------------------------
(* Cancellation *)

\* C11: cancel_by_client returns True and sets the status to Canceled exactly
\* when the appointment is Booked and now <= start - cancel_limit_hours (the
\* limit itself included); otherwise it returns False and leaves the object as
\* loaded.  The commit of a refused cancellation changes no row, the commit of
\* a granted one writes Canceled.
ClientCancelContract ==
    [][\A p \in Procs :
          LET s == sess[p]
              s2 == sess'[p]
              o == appts[s2.id]
              granted == o.status = "Booked" /\ now <= o.start_dt - cancel_limit_hours
          IN /\ (s.pc = "idle" /\ s2.op = "cancel_by_client") =>
                   /\ s2.snap = o
                   /\ (s2.res = "True") <=> granted
                   /\ (s2.res = "False") <=> ~granted
                   /\ s2.obj = IF granted THEN [o EXCEPT !.status = "Canceled"] ELSE o
             /\ (s.op = "cancel_by_client" /\ s.pc = "open" /\ s2.pc = "idle") =>
                   /\ blocks' = blocks
                   /\ IF s.res = "True"
                      THEN appts' = [appts EXCEPT ![s.id].status = "Canceled"]
                      ELSE appts' = appts]_vars

\* C11, witness: a cancellation was granted at exactly start - cancel_limit_hours.
ClientCancelAtLimit ==
    \E p \in Procs :
        /\ sess[p].op = "cancel_by_client" /\ sess[p].pc = "open"
        /\ sess[p].res = "True"
        /\ sess[p].snap.status = "Booked"
        /\ sess[p].now_utc = sess[p].snap.start_dt - cancel_limit_hours
        /\ sess[p].obj.status = "Canceled"

\* C12: admin_cancel_appointment moves a Booked appointment to Canceled however
\* close now is to its start, also after the client's limit and after the
\* start; for every other status it returns False and leaves the object as
\* loaded, and the commit then changes no row.
AdminCancelContract ==
    [][\A p \in Procs :
          LET s == sess[p]
              s2 == sess'[p]
              o == appts[s2.id]
          IN /\ (s.pc = "idle" /\ s2.op = "admin_cancel_appointment") =>
                   /\ s2.snap = o
                   /\ (s2.res = "True") <=> (o.status = "Booked")
                   /\ (s2.res = "False") <=> (o.status # "Booked")
                   /\ s2.obj = IF o.status = "Booked"
                               THEN [o EXCEPT !.status = "Canceled"] ELSE o
             /\ (s.op = "admin_cancel_appointment" /\ s.pc = "open" /\ s2.pc = "idle") =>
                   /\ blocks' = blocks
                   /\ IF s.res = "True"
                      THEN appts' = [appts EXCEPT ![s.id].status = "Canceled"]
                      ELSE appts' = appts]_vars

\* C12, witness: the operator canceled a Booked appointment after the
\* client's limit had passed.
AdminCancelPastLimit ==
    \E p \in Procs :
        /\ sess[p].op = "admin_cancel_appointment" /\ sess[p].pc = "open"
        /\ sess[p].res = "True"
        /\ sess[p].snap.status = "Booked"
        /\ sess[p].now_utc > sess[p].snap.start_dt - cancel_limit_hours
        /\ sess[p].obj.status = "Canceled"

---------------------------------------------------------------------------
(* The slot calculator on its own: a store of at most one appointment, one
   blocked interval and one daily break rule *)

SlotStoredRows ==
    {RowOf(status, service_id, start) :
        status \in {"Hold", "Booked", "Canceled"},
        service_id \in ServiceIds, start \in 0..((MaxDay + 1) * day_min - 3)}

SlotStoredBlocks ==
    {[start_dt |-> start, end_dt |-> start + duration_min] :
        start \in {2, day_min + 2}, duration_min \in BreakDurations}

InitSlots ==
    /\ now \in {0, MaxNow}
    /\ appts \in {<<>>} \cup {<<r>> : r \in SlotStoredRows}
    /\ blocks \in {<<>>} \cup {<<b>> : b \in SlotStoredBlocks}
    /\ rules \in {<<>>, <<BreakRule("daily", 0, 4, 1, NULL)>>}
    /\ sess = [p \in Procs |-> Idle]
    /\ ticks = [t \in Ticks |-> TickIdle]
    /\ sent = [a \in 1..MaxAppts |-> 0]
    /\ job = JobIdle

NextSlots == Slots({1}, SettingsViews, {MaxHorizon}) \/ commit(1)

SpecSlots == InitSlots /\ [][NextSlots]_vars

\* The occupied span, in UTC, of a start the calculator returned to session s.
SlotStartUtc(s, k) == s.slots[k] - tz_offset
SlotEndUtc(s, k) ==
    s.slots[k] - tz_offset + s.dur + ServiceBuffer(s.obj.service_id) + buffer_min

\* C14: no start returned by list_available_slots_for_duration has an occupied
\* span [start, start + duration + service buffer + global buffer) that meets
\* an active (Hold/Booked) appointment or a blocked interval, stored or
\* pending in the calculator's own session.
SlotsAvoidOccupied ==
    \A p \in Procs :
        sess[p].op = "list_available_slots" =>
            \A k \in DOMAIN sess[p].slots :
                /\ ~SpanTaken(SlotStartUtc(sess[p], k), SlotEndUtc(sess[p], k), 0)
                /\ ~SpanBlocked(SlotStartUtc(sess[p], k), SlotEndUtc(sess[p], k))
                /\ \A b \in DOMAIN sess[p].gen :
                      ~(/\ sess[p].gen[b].start_dt < SlotEndUtc(sess[p], k)
                        /\ sess[p].gen[b].end_dt > SlotStartUtc(sess[p], k))

\* C15: every start returned has its occupied end at or before the day's
\* work end, and a start of the grid at or after the work start whose
\* occupied end is the work end itself is returned when it is not earlier
\* than now + lead time and its span meets no active appointment and no
\* blocked interval.
SlotsWithinWorkDay ==
    \A p \in Procs :
        sess[p].op = "list_available_slots" =>
            LET s == sess[p]
                work_start_local == s.day * day_min + s.settings.work_start
                work_end_local == s.day * day_min + s.settings.work_end
                span == s.dur + ServiceBuffer(s.obj.service_id) + buffer_min
                first == work_start_local - (work_start_local % hour_min)
                            + ((work_start_local % hour_min) \div s.settings.slot_step_min)
                              * s.settings.slot_step_min
                c == work_end_local - span
            IN /\ \A k \in DOMAIN s.slots : s.slots[k] + span <= work_end_local
               /\ (/\ c >= work_start_local
                   /\ (c - first) % s.settings.slot_step_min = 0
                   /\ c >= s.now_utc + tz_offset + s.settings.min_lead_time_min
                   /\ ~SpanTaken(c - tz_offset, work_end_local - tz_offset, 0)
                   /\ ~SpanBlocked(c - tz_offset, work_end_local - tz_offset)
                   /\ \A b \in DOMAIN s.gen :
                         ~(/\ s.gen[b].start_dt < work_end_local - tz_offset
                           /\ s.gen[b].end_dt > c - tz_offset))
                  => \E k \in DOMAIN s.slots : s.slots[k] = c

\* C15, witness: the calculator returned a start whose occupied end is the
\* work end.
SlotEndsAtWorkEnd ==
    \E p \in Procs :
        /\ sess[p].op = "list_available_slots"
        /\ \E k \in DOMAIN sess[p].slots :
              sess[p].slots[k] + sess[p].dur + ServiceBuffer(sess[p].obj.service_id)
                 + buffer_min = sess[p].day * day_min + sess[p].settings.work_end

---------------------------------------------------------------------------
(* The operator's decisions *)

\* C16: the operator's reject moves an appointment to Rejected only when its
\* status is Hold, recording the reason and clearing hold_expires_at; applied
\* to a Booked or terminal appointment it leaves the object as loaded and its
\* commit changes no row.
RejectOnlyFromHold ==
    [][\A p \in Procs :
          LET s == sess[p]
              s2 == sess'[p]
              o == appts[s2.id]
          IN /\ (s.pc = "idle" /\ s2.op = "admin_reject") =>
                   s2.obj = IF o.status = "Hold"
                            THEN [o EXCEPT !.status = "Rejected",
                                           !.admin_comment = "reason",
                                           !.hold_expires_at = NULL]
                            ELSE o
             /\ (s.op = "admin_reject" /\ s.pc = "open" /\ s2.pc = "idle"
                   /\ s.snap.status # "Hold") =>
                   appts' = appts]_vars

\* C17: the operator's confirm changes an appointment only if the status it
\* loaded is Hold: the object then becomes Booked with hold_expires_at null,
\* start and end as loaded, and the commit writes exactly these two columns;
\* for any other loaded status the handler answers "already processed", the
\* object stays as loaded and the commit changes no row.
ConfirmOnlyFromHold ==
    [][\A p \in Procs :
          LET s == sess[p]
              s2 == sess'[p]
              o == appts[s2.id]
          IN /\ (s.pc = "idle" /\ s2.op = "admin_confirm") =>
                   /\ s2.snap = o
                   /\ s2.obj = IF o.status = "Hold"
                               THEN [o EXCEPT !.status = "Booked",
                                              !.hold_expires_at = NULL]
                               ELSE o
                   /\ s2.obj.start_dt = o.start_dt /\ s2.obj.end_dt = o.end_dt
                   /\ (s2.res = "PROCESSED") <=> (o.status # "Hold")
             /\ (s.op = "admin_confirm" /\ s.pc = "open" /\ s2.pc = "idle") =>
                   /\ blocks' = blocks
                   /\ IF s.snap.status = "Hold"
                      THEN appts' = [appts EXCEPT ![s.id].status = "Booked",
                                                  ![s.id].hold_expires_at = NULL]
                      ELSE appts' = appts]_vars

\* C17, witness: a confirmation turned a loaded Hold with a pending expiry
\* into Booked and is about to commit.
HoldConfirmed ==
    \E p \in Procs :
        /\ sess[p].op = "admin_confirm" /\ sess[p].pc = "open"
        /\ sess[p].snap.status = "Hold" /\ sess[p].snap.hold_expires_at # NULL
        /\ sess[p].obj.status = "Booked" /\ sess[p].obj.hold_expires_at = NULL
        /\ sess[p].obj.start_dt = sess[p].snap.start_dt

---------------------------------------------------------------------------
(* Creation *)

\* C18: a create call adds a row exactly when _ensure_slot_available finds
\* the span [start, start + duration + service buffer + global buffer) free
\* of active appointments and blocked intervals.  The row of a client request
\* is a Hold with hold_expires_at = the call's creation time + hold_ttl_min
\* and no proposal; the row of the operator's direct booking is Booked with
\* hold_expires_at null.  The commit inserts that row and nothing else.
CreateContract ==
    [][\A p \in Procs :
          LET s == sess[p]
              s2 == sess'[p]
              svc == s.obj.service_id
              free == ~SpanTaken(s.start, s.end_, 0) /\ ~SpanBlocked(s.start, s.end_)
          IN /\ (s.pc = "idle" /\ s2.op \in CreateOps) =>
                   /\ s2.now_utc = now
                   /\ s2.end_ = s2.start + ServiceDuration(s2.obj.service_id)
                                   + ServiceBuffer(s2.obj.service_id) + buffer_min
                   /\ ~s2.add
             /\ (s.op \in CreateOps /\ s.pc = "lock" /\ s2.pc = "open") =>
                   /\ s2.add <=> free
                   /\ s2.add <=> (s2.res = "OK")
                   /\ s2.add =>
                         /\ s2.obj.start_dt = s.start /\ s2.obj.end_dt = s.end_
                         /\ s2.obj.service_id = svc
                         /\ s2.obj.proposed_alt_start_dt = NULL
                         /\ ~s2.obj.visit_confirmed
                         /\ IF s.op = "create_hold_appointment"
                            THEN /\ s2.obj.status = "Hold"
                                 /\ s2.obj.hold_expires_at = s.now_utc + hold_ttl_min
                            ELSE /\ s2.obj.status = "Booked"
                                 /\ s2.obj.hold_expires_at = NULL
             /\ (s.op \in CreateOps /\ s.pc = "open" /\ s2.pc = "idle") =>
                   /\ blocks' = blocks
                   /\ appts' = IF s.add THEN Append(appts, s.obj) ELSE appts]_vars

\* C18, witness: a client request made after the clock had advanced passed
\* the check and holds a new Hold row to insert.
HoldCreated ==
    \E p \in Procs :
        /\ sess[p].op = "create_hold_appointment" /\ sess[p].pc = "open"
        /\ sess[p].add
        /\ sess[p].now_utc > 0
        /\ sess[p].obj.status = "Hold"
        /\ sess[p].obj.hold_expires_at = sess[p].now_utc + hold_ttl_min

---------------------------------------------------------------------------
(* Completion *)

\* C19: a row's status becomes Completed only from Booked, only when its end
\* time has passed, and only when its visit has been confirmed
\* (visit_confirmed is true in the row that becomes Completed).
CompletedOnlyWhenVisitConfirmed ==
    [][\A a \in DOMAIN appts :
          (appts[a].status # "Completed" /\ appts'[a].status = "Completed") =>
              /\ appts[a].status = "Booked"
              /\ appts[a].end_dt <= now
              /\ appts'[a].visit_confirmed]_vars

---------------------------------------------------------------------------
(* Direct reschedule beside concurrent reservations and breaks *)

NextDirect ==
    \/ Reserve(Procs, {1}, {0})
    \/ Reschedule(Procs, Starts)
    \/ Breaks(Procs, {1, 2}, {1})

SpecDirect == Init /\ [][NextDirect]_vars

\* C20: the operator's direct reschedule is atomic.  When it succeeds its
\* commit leaves the row at the new span with no proposal; when it fails with
\* SLOT_TAKEN, SLOT_BLOCKED or NOT_BOOKED, in the propose half or in the
\* approve half, its commit changes no row, so no proposed_alt_start_dt is
\* left behind.
DirectRescheduleAtomic ==
    [][\A p \in Procs :
          LET s == sess[p]
              s2 == sess'[p]
          IN (s.op = "admin_reschedule_appointment" /\ s.pc = "open" /\ s2.pc = "idle") =>
                IF s.res = "OK"
                THEN /\ appts'[s.id].start_dt = s.start
                     /\ appts'[s.id].end_dt = s.end_
                     /\ appts'[s.id].proposed_alt_start_dt = NULL
                ELSE appts' = appts]_vars

---------------------------------------------------------------------------
(* Blocked intervals against the store *)

\* C21: create_blocked_interval over [start, start + duration) is refused with
\* SLOT_TAKEN when the span meets a Hold or Booked appointment and with
\* SLOT_BLOCKED when it meets no such appointment but an existing blocked
\* interval; a refused creation adds no block, and neither the call nor the
\* commit of a creation or of a deletion changes any appointment.
BreakContract ==
    [][\A p \in Procs :
          LET s == sess[p]
              s2 == sess'[p]
          IN /\ (s.pc = "idle" /\ s2.op = "create_blocked_interval") =>
                   /\ SpanTaken(s2.start, s2.end_, 0) => s2.res = "SLOT_TAKEN"
                   /\ (~SpanTaken(s2.start, s2.end_, 0) /\ SpanBlocked(s2.start, s2.end_)) =>
                         s2.res = "SLOT_BLOCKED"
                   /\ appts' = appts /\ blocks' = blocks
             /\ (s.op = "create_blocked_interval" /\ s.pc = "open" /\ s2.pc = "idle") =>
                   /\ appts' = appts
                   /\ (s.res # "OK") => blocks' = blocks
             /\ (s.pc = "idle" /\ s2.op = "delete_blocked_interval") =>
                   appts' = appts
             /\ (s.op = "delete_blocked_interval" /\ s.pc = "open" /\ s2.pc = "idle") =>
                   appts' = appts]_vars

\* C21, witness: a creation was refused with SLOT_BLOCKED on a stored block
\* while a hold lies elsewhere, and the store has an active appointment that a
\* creation could meet.
BreakRefusedOverBlock ==
    \E p \in Procs :
        /\ sess[p].op = "create_blocked_interval" /\ sess[p].pc = "open"
        /\ sess[p].res = "SLOT_BLOCKED"
        /\ SpanBlocked(sess[p].start, sess[p].end_)
        /\ \E i \in DOMAIN appts : appts[i].status = "Hold"

---------------------------------------------------------------------------
(* The sweeper as the job queue runs it: run_repeating starts a run again and
   again, a started run goes on to its commit unless the process stops, runs
   that commit keep occurring, and the clock advances *)

NextExpire ==
    \/ Reserve({1}, {1}, {0})
    \/ Decide({1})
    \/ Sweeper
    \/ advance_clock

FairExpire ==
    /\ WF_vars(advance_clock)
    /\ WF_vars(\E t \in Ticks : tick_select(t))
    /\ SF_vars(\E t \in Ticks : tick_commit(t))
    /\ WF_vars(\E t \in Ticks, a \in 1..MaxAppts, delivered \in BOOLEAN :
                  tick_send(t, a, delivered))

SpecExpire == Init /\ [][NextExpire]_vars /\ FairExpire

\* C22: every appointment in Hold whose expiry lies within the clock's range
\* eventually leaves Hold, for Booked or Rejected, whatever the operator does
\* or does not do; and an appointment that is Rejected occupies nothing: no
\* availability check over any span finds it.
HoldLeaves ==
    /\ \A a \in 1..MaxAppts :
          (IF a \in DOMAIN appts
           THEN appts[a].status = "Hold" /\ appts[a].hold_expires_at <= MaxNow
           ELSE FALSE)
            ~> (IF a \in DOMAIN appts
                THEN appts[a].status \in {"Booked", "Rejected"}
                ELSE FALSE)
    /\ [](\A a \in DOMAIN appts :
             appts[a].status = "Rejected" =>
                 a \notin OverlapAppts(appts, appts[a].start_dt, appts[a].end_dt, 0))

\* C22, witness: a hold that nobody decided was set to Rejected by the sweeper
\* (its expiry is still on the row) and a new hold now stands on its span.
SweptSpanReservedAgain ==
    \E a \in DOMAIN appts, b \in DOMAIN appts :
        /\ appts[a].status = "Rejected"
        /\ appts[a].hold_expires_at # NULL
        /\ appts[a].admin_comment = "None"
        /\ appts[b].status = "Hold"
        /\ Overlaps(appts[a].start_dt, appts[a].end_dt, appts[b].start_dt, appts[b].end_dt)

---------------------------------------------------------------------------
(* Notifications *)

\* C23: a notification that cannot be delivered neither rolls back nor blocks
\* the transition that triggered it.  When the send of an operator's confirm,
\* reject, or reschedule approval or rejection raises, the handler's change is
\* committed all the same; when a send of the sweeper raises, the rows it set
\* to Rejected stay as committed.
NotifyFailureKeepsTransition ==
    [][/\ \A p \in Procs :
             (sess[p].pc = "send" /\ sess'[p].pc = "idle") =>
                 appts' = [appts EXCEPT ![sess[p].id] =
                              Flush(appts[sess[p].id], sess[p].snap, sess[p].obj)]
       /\ \A t \in Ticks :
             (ticks[t].pc = "sending" /\ ticks'[t] # ticks[t] /\ sent' = sent) =>
                 /\ appts' = appts
                 /\ \A a \in ticks[t].expired : appts[a].status # "Hold"]_vars

---------------------------------------------------------------------------
(* The slot-key lock *)

\* C24: no slot key is held by two transactions at once, where a transaction
\* holds its key from the return of pg_advisory_xact_lock to its commit or
\* rollback; a transaction asking for a key that another one holds waits, it
\* neither fails nor proceeds, for as long as the key is held; and when it gets
\* the key its overlap queries run on the rows committed by then, the former
\* holder's included.
LockSerializes ==
    [][\A p \in Procs :
          LET s == sess[p]
              s2 == sess'[p]
          IN /\ \A q \in Procs \ {p} :
                   /\ s.held \cap sess[q].held = {}
                   /\ s2.held \cap sess'[q].held = {}
             /\ (s.pc \in {"lock", "lock2"}
                   /\ \E q \in Procs \ {p} : s.key \in sess[q].held) =>
                   s2 = s
             /\ (s.held # {} /\ s2.pc # "idle") => s.held \subseteq s2.held
             /\ (s.pc = "lock" /\ s2.pc # "lock" /\ s.op \in CreateOps) =>
                   /\ s2.held = {s.key}
                   /\ (s2.res = "SLOT_TAKEN") <=> SpanTaken(s.start, s.end_, 0)
                   /\ (s2.res = "SLOT_BLOCKED") <=>
                         (~SpanTaken(s.start, s.end_, 0) /\ SpanBlocked(s.start, s.end_))]_vars

\* C24, witness: a reservation waits for the key of a transaction that has
\* added its row and not yet committed.
AcquirerWaits ==
    \E p \in Procs, q \in Procs :
        /\ p # q
        /\ sess[p].pc = "lock" /\ sess[p].key \in sess[q].held
        /\ sess[q].pc = "open" /\ sess[q].add

\* C25: the sweeper sends the expiry notification of a hold only after the
\* commit of the run that set the hold to Rejected: whenever a notification
\* for an appointment is delivered, a run that selected it is past its commit
\* and the stored row is no longer Hold; a run that ends before its commit
\* sends nothing and leaves the store as it was.
SendAfterCommit ==
    [][/\ \A a \in 1..MaxAppts :
             (sent'[a] # sent[a]) =>
                 /\ sent'[a] = sent[a] + 1
                 /\ \E t \in Ticks :
                       /\ ticks[t].pc = "sending" /\ a \in ticks[t].expired
                       /\ ticks'[t] # ticks[t]
                 /\ a \in DOMAIN appts
                 /\ appts[a].status # "Hold"
       /\ \A t \in Ticks :
             (ticks[t].pc = "selected" /\ ticks'[t].pc = "idle") =>
                 (sent' = sent /\ appts' = appts)
       /\ \A t \in Ticks :
             (ticks[t].pc = "sending") =>
                 \A a \in ticks[t].expired : appts[a].status # "Hold"]_vars

\* C25, witness: a run that selected two holds has committed and delivered the
\* notification of one of them, the other is still to be sent.
SentOneOfTwo ==
    \E t \in Ticks, a \in DOMAIN appts :
        /\ ticks[t].pc = "sending"
        /\ a \notin ticks[t].expired
        /\ sent[a] = 1 /\ appts[a].status = "Rejected"
        /\ \E b \in ticks[t].expired : sent[b] = 0 /\ appts[b].status = "Rejected"

---------------------------------------------------------------------------
(* Reschedules beside the operator's and the client's decisions, one update
   at a time *)

NextApprove ==
    \/ Reserve({1}, {1}, {0})
    \/ Decide({1})
    \/ Reschedule({1}, Starts)

SpecApprove == Init /\ [][NextApprove]_vars

\* C26: the approval of a reschedule for an appointment that is not Booked, or
\* that has no pending proposal, is a failure reported to the caller: the
\* handler ends with an error result, changes nothing and sends no
\* confirmation to the client.
ApproveFailsHard ==
    [][\A p \in Procs :
          LET s == sess[p]
              s2 == sess'[p]
          IN (s.pc = "idle" /\ s2.op = "confirm_reschedule"
                /\ (appts[s2.id].status # "Booked"
                      \/ appts[s2.id].proposed_alt_start_dt = NULL)) =>
                /\ s2.res # "OK"
                /\ s2.pc = "open"
                /\ s2.obj = appts[s2.id]]_vars

---------------------------------------------------------------------------
(* Visit confirmations beside the decisions that end an appointment *)

NextVisit ==
    \/ Reserve({1}, {1}, {0})
    \/ Decide({1})
    \/ Visit({1})
    \/ VisitPrice({1})
    \/ advance_clock

SpecVisit == Init /\ [][NextVisit]_vars

\* C27: confirming a visit (by the operator, with or without a final price,
\* or by the client from a reminder) for an appointment that is Rejected or
\* Canceled is a no-op: the loaded object stays as it is and the commit leaves
\* status, visit_confirmed and price_override of the row, and every other row,
\* unchanged.
VisitConfirmOnEndedIsNoOp ==
    [][\A p \in Procs :
          LET s == sess[p]
              s2 == sess'[p]
              VisitOps == {"admin_visit_confirm", "handle_admin_visit_price",
                           "reminder_confirm"}
          IN /\ (s.pc = "idle" /\ s2.op \in VisitOps
                   /\ appts[s2.id].status \in {"Rejected", "Canceled"}) =>
                   /\ s2.obj.status = appts[s2.id].status
                   /\ s2.obj.visit_confirmed = appts[s2.id].visit_confirmed
                   /\ s2.obj.price_override = appts[s2.id].price_override
             /\ (s.op \in VisitOps /\ s.pc = "open" /\ s2.pc = "idle"
                   /\ s.snap.status \in {"Rejected", "Canceled"}) =>
                   appts' = appts]_vars

---------------------------------------------------------------------------
(* Sequences of expansions *)

\* C28: over any sequence of expansions the last_generated_date of a rule
\* never decreases and, once set, is never null again: on the rules an
\* expansion holds in its session and on the rows its commit writes.
LastGeneratedMonotone ==
    [][/\ DOMAIN rules' = DOMAIN rules
       /\ \A i \in DOMAIN rules :
             rules[i].last_generated_date # NULL =>
                 /\ rules'[i].last_generated_date # NULL
                 /\ rules'[i].last_generated_date >= rules[i].last_generated_date
       /\ \A p \in Procs :
             (sess[p].pc = "idle" /\ sess'[p].op = "generate_breaks_from_rules") =>
                 /\ sess'[p].rsnap = rules
                 /\ DOMAIN sess'[p].robj = DOMAIN rules
                 /\ \A i \in DOMAIN rules :
                       rules[i].last_generated_date # NULL =>
                           /\ sess'[p].robj[i].last_generated_date # NULL
                           /\ sess'[p].robj[i].last_generated_date
                                 >= rules[i].last_generated_date]_vars

\* C28, witness: an expansion moved a rule's last_generated_date from one date
\* to a later one, and its commit has the row to write.
LastGeneratedAdvanced ==
    \E p \in Procs :
        /\ sess[p].op = "generate_breaks_from_rules" /\ sess[p].pc = "open"
        /\ \E i \in DOMAIN sess[p].robj :
              /\ sess[p].rsnap[i].last_generated_date # NULL
              /\ sess[p].robj[i].last_generated_date > sess[p].rsnap[i].last_generated_date
              /\ rules[i].last_generated_date = sess[p].rsnap[i].last_generated_date

\* C29: an expansion never takes up a date at or before a rule's current
\* last_generated_date: for a rule whose last_generated_date is set the cursor
\* starts at max(start_date, last_generated_date + step), also when
\* last_generated_date equals start_date, and every candidate date is later
\* than last_generated_date, so that a date skipped earlier or a deleted
\* interval is not tried again.
NeverRetriesGeneratedDate ==
    [][\A p \in Procs :
          (sess[p].pc = "idle" /\ sess'[p].op = "generate_breaks_from_rules") =>
              \A i \in DOMAIN rules :
                  LET rule == rules[i]
                      step == IF rule.repeat = "daily" THEN 1 ELSE week_len
                      wd == IF rule.repeat = "weekly" /\ rule.weekday # NULL
                            THEN work_days \cup {rule.weekday} ELSE work_days
                      days == break_rule_due_dates(
                                  rule, DateOf(to_tz(now)) + sess'[p].id, wd)
                      next_date == rule.last_generated_date + step
                  IN rule.last_generated_date # NULL =>
                        /\ break_rule_cursor(rule, step) =
                              (IF next_date > rule.start_date THEN next_date
                               ELSE rule.start_date)
                        /\ \A k \in DOMAIN days : days[k] > rule.last_generated_date]_vars

\* The candidate dates of rule i in an expansion through the day through_day
CandidateDays(i, through_day) ==
    break_rule_due_dates(rules[i], through_day,
        IF rules[i].repeat = "weekly" /\ rules[i].weekday # NULL
        THEN work_days \cup {rules[i].weekday} ELSE work_days)

\* The number of candidate dates of the rules i .. Len(rules)
RECURSIVE CandidateCount(_, _)
CandidateCount(i, through_day) ==
    IF i > Len(rules) THEN 0
    ELSE Len(CandidateDays(i, through_day)) + CandidateCount(i + 1, through_day)

\* C30: in an expansion a candidate date whose interval meets an active
\* appointment or a blocked interval (stored, or created earlier in the same
\* run) is counted as skipped and creates nothing, and the run goes on with
\* the remaining dates and rules: no created interval meets an active
\* appointment, a stored interval or another created one; every candidate
\* span ends up created or in conflict; created + skipped is the number of
\* candidate dates of all rules; and every rule with candidates has its
\* last_generated_date on its last candidate, created or not.
ExpansionSkipsAndContinues ==
    [][\A p \in Procs :
          (sess[p].pc = "idle" /\ sess'[p].op = "generate_breaks_from_rules") =>
              LET s2 == sess'[p]
                  through_day == DateOf(to_tz(now)) + s2.id
              IN /\ s2.created + s2.skipped = CandidateCount(1, through_day)
                 /\ s2.created = Len(s2.gen)
                 /\ \A g \in DOMAIN s2.gen :
                       /\ ~SpanTaken(s2.gen[g].start_dt, s2.gen[g].end_dt, 0)
                       /\ ~SpanBlocked(s2.gen[g].start_dt, s2.gen[g].end_dt)
                       /\ \A h \in DOMAIN s2.gen :
                             h # g => ~(/\ s2.gen[h].start_dt < s2.gen[g].end_dt
                                        /\ s2.gen[h].end_dt > s2.gen[g].start_dt)
                 /\ \A i \in DOMAIN rules :
                       LET days == CandidateDays(i, through_day)
                       IN /\ \A k \in DOMAIN days :
                                LET start == days[k] * day_min + rules[i].start_time
                                                - tz_offset
                                    end_ == start + rules[i].duration_min
                                IN \/ SpanTaken(start, end_, 0)
                                   \/ SpanBlocked(start, end_)
                                   \/ \E g \in DOMAIN s2.gen :
                                         /\ s2.gen[g].start_dt < end_
                                         /\ s2.gen[g].end_dt > start
                          /\ s2.robj[i] =
                                IF days = <<>> THEN rules[i]
                                ELSE [rules[i] EXCEPT
                                         !.last_generated_date = days[Len(days)]]]_vars

\* C30, witness: an expansion skipped the last candidate date of a rule
\* because an appointment stands there, created an interval on another date,
\* and moved the rule's last_generated_date to the skipped date.
SkippedLastCandidate ==
    \E p \in Procs :
        /\ sess[p].op = "generate_breaks_from_rules" /\ sess[p].pc = "open"
        /\ sess[p].skipped > 0 /\ sess[p].created > 0
        /\ \E i \in DOMAIN sess[p].robj :
              LET rule == sess[p].robj[i]
                  start == rule.last_generated_date * day_min + rule.start_time - tz_offset
              IN /\ rule.last_generated_date # sess[p].rsnap[i].last_generated_date
                 /\ SpanTaken(start, start + rule.duration_min, 0)

---------------------------------------------------------------------------
(* The candidate dates of the rules: rules of every repeat that
   create_break_rule can store, anchored on work days and on the day off,
   expanded late on one day and after local midnight *)

CandidateRules ==
    {BreakRule(repeat, start_date, 1, 1,
               IF k < 0 \/ repeat = "none" THEN NULL
               ELSE start_date + k * (IF repeat = "daily" THEN 1 ELSE week_len)) :
        repeat \in {"daily", "weekly", "none"}, start_date \in 0..2, k \in -1..1}

InitCandidates ==
    /\ now \in {0, day_min - tz_offset}
    /\ appts = <<>>
    /\ blocks = <<>>
    /\ rules \in UNION {[1..n -> CandidateRules] : n \in 1..MaxRules}
    /\ sess = [p \in Procs |-> Idle]
    /\ ticks = [t \in Ticks |-> TickIdle]
    /\ sent = [a \in 1..MaxAppts |-> 0]
    /\ job = JobIdle

NextCandidates == Expand({1}) \/ commit(1)

SpecCandidates == InitCandidates /\ [][NextCandidates]_vars

\* The date d is one that a daily or weekly rule may take up in an expansion
\* through the day through_day
OnRuleLattice(rule, d, through_day) ==
    /\ rule.repeat \in {"daily", "weekly"}
    /\ d >= rule.start_date
    /\ (d - rule.start_date) % (IF rule.repeat = "daily" THEN 1 ELSE week_len) = 0
    /\ d <= through_day
    /\ \/ (d % week_len) \in work_days
       \/ rule.repeat = "weekly" /\ (d % week_len) = (rule.start_date % week_len)

\* C31: every candidate date d of a daily or weekly rule is start_date + k *
\* step with k >= 0, is not after today + horizon_days (today in the local
\* zone), and falls on a work weekday or, for a weekly rule, on the rule's
\* own weekday; a rule with another repeat has no candidates, keeps its
\* last_generated_date and gets no interval.  Stated on the candidate lists,
\* on the intervals an expansion creates and on the dates it records.
CandidatesOnLattice ==
    [][\A p \in Procs :
          (sess[p].pc = "idle" /\ sess'[p].op = "generate_breaks_from_rules") =>
              LET s2 == sess'[p]
                  through_day == ((now + tz_offset) \div day_min) + s2.id
              IN /\ \A i \in DOMAIN rules :
                       LET days == CandidateDays(i, through_day)
                       IN /\ \A k \in DOMAIN days :
                                OnRuleLattice(rules[i], days[k], through_day)
                          /\ \A k \in DOMAIN days :
                                k > 1 => days[k] > days[k - 1]
                          /\ rules[i].repeat \notin {"daily", "weekly"} =>
                                (days = <<>> /\ s2.robj[i] = rules[i])
                          /\ s2.robj[i].last_generated_date # rules[i].last_generated_date =>
                                OnRuleLattice(rules[i], s2.robj[i].last_generated_date,
                                              through_day)
                 /\ \A g \in DOMAIN s2.gen :
                       \E i \in DOMAIN rules, d \in 0..through_day :
                          /\ OnRuleLattice(rules[i], d, through_day)
                          /\ s2.gen[g].start_dt =
                                d * day_min + rules[i].start_time - tz_offset
                          /\ s2.gen[g].end_dt =
                                s2.gen[g].start_dt + rules[i].duration_min]_vars

\* C31, witness: an expansion run after local midnight created, for a weekly
\* rule anchored on a day that is not a work day, the interval of the anchor
\* day itself, while a rule without repetition stayed as it was.
AnchorDayOffGenerated ==
    \E p \in Procs :
        /\ sess[p].op = "generate_breaks_from_rules" /\ sess[p].pc = "open"
        /\ \E i \in DOMAIN sess[p].rsnap, g \in DOMAIN sess[p].gen :
              /\ sess[p].rsnap[i].repeat = "weekly"
              /\ sess[p].rsnap[i].weekday \notin work_days
              /\ sess[p].gen[g].start_dt =
                    sess[p].rsnap[i].start_date * day_min
                       + sess[p].rsnap[i].start_time - tz_offset
        /\ \E j \in DOMAIN sess[p].rsnap :
              sess[p].rsnap[j].repeat = "none" /\ sess[p].robj[j] = sess[p].rsnap[j]

\* C32: the starts returned by list_available_slots_for_duration lie on the
\* grid that begins at the work start rounded up to the next multiple of
\* slot_step_min within its hour and continues in steps of slot_step_min,
\* they are in ascending order, and none is earlier than the work start,
\* also when the work start is not a multiple of the step.
SlotsOnRoundedUpGrid ==
    \A p \in Procs :
        sess[p].op = "list_available_slots" =>
            LET s == sess[p]
                step == s.settings.slot_step_min
                work_start_local == s.day * day_min + s.settings.work_start
                minute == work_start_local % hour_min
                first == work_start_local - minute
                            + ((minute + step - 1) \div step) * step
            IN /\ \A k \in DOMAIN s.slots :
                     /\ s.slots[k] >= first
                     /\ (s.slots[k] - first) % step = 0
                     /\ s.slots[k] >= work_start_local
               /\ \A k \in DOMAIN s.slots : k > 1 => s.slots[k] > s.slots[k - 1]

\* C33: in every committed state an appointment's hold_expires_at is set
\* only while its status is Hold: confirm, reject and the sweeper's expiry
\* leave it NULL.
HoldExpiryOnlyOnHold ==
    \A a \in DOMAIN appts :
        appts[a].hold_expires_at # NULL => appts[a].status = "Hold"

\* C34: in every committed state an appointment's proposed_alt_start_dt is
\* set only while its status is Booked: no proposal outlives a cancel by the
\* client or the operator, a reject, or the completion of the appointment.
ProposalOnlyOnBooked ==
    \A a \in DOMAIN appts :
        appts[a].proposed_alt_start_dt # NULL => appts[a].status = "Booked"

\* C35: however a reservation or reschedule transaction interleaves with a
\* concurrent creation of a blocked interval, no committed state has an
\* active (Hold/Booked) appointment whose [start, end) meets a blocked
\* interval, and no two blocked intervals meet each other.
NoBlockedOverlap ==
    /\ \A a \in DOMAIN appts : \A b \in DOMAIN blocks :
          ActiveStatus(appts[a].status) =>
              ~(appts[a].start_dt < blocks[b].end_dt /\ blocks[b].start_dt < appts[a].end_dt)
    /\ \A b \in DOMAIN blocks : \A c \in DOMAIN blocks :
          b < c => ~(blocks[b].start_dt < blocks[c].end_dt
                     /\ blocks[c].start_dt < blocks[b].end_dt)

\* C36: the sweeper's commit turns an appointment into Rejected only when the
\* appointment's committed status is still Hold at that moment: a confirm
\* (Hold to Booked) committed after the sweeper's select and before the
\* sweeper's commit is not overwritten.
SweeperRejectsOnlyHolds ==
    [][\A t \in Ticks : \A a \in DOMAIN appts :
          (/\ ticks[t].pc = "selected" /\ ticks'[t].pc = "sending"
           /\ appts[a].status # "Rejected"
           /\ appts'[a].status = "Rejected")
              => appts[a].status = "Hold"]_vars

\* C37: with the store and the clock unchanged, every start returned by
\* list_available_slots_for_duration passes the reservation's own check:
\* _ensure_slot_available for the same service, start and duration, run on
\* the stored appointments and the blocked intervals (those the listing's
\* session has pending included), raises neither SLOT_TAKEN nor SLOT_BLOCKED.
ListedSlotsReservable ==
    \A p \in Procs :
        sess[p].op = "list_available_slots" =>
            \A k \in DOMAIN sess[p].slots :
                EnsureSlotAvailable(appts, blocks \o sess[p].gen,
                                    SlotStartUtc(sess[p], k),
                                    SlotEndUtc(sess[p], k), NULL) = "OK"

---------------------------------------------------------------------------
(* Transactions that wait for slot keys: every open transaction comes to its
   end (the handler returns or raises), a message inside a transaction is
   delivered or fails, and a released advisory lock goes to the transactions
   waiting for it in the order PostgreSQL queued them, so a waiter is not
   passed over for ever *)

NextLocks ==
    \/ Reserve(Procs, {1}, {0})
    \/ Reschedule(Procs, {0, 2})

FairLocks ==
    \A p \in Procs :
        /\ WF_vars(commit(p))
        /\ WF_vars(\E delivered \in BOOLEAN : send_message(p, delivered))
        /\ SF_vars(ensure_slot_available(p))
        /\ SF_vars(request_reschedule(p))
        /\ SF_vars(confirm_reschedule(p))

SpecLocks == Init /\ [][NextLocks]_vars /\ FairLocks

\* C38: a reservation or reschedule transaction never holds more than one
\* slot key (the direct reschedule takes the key of one start and service
\* twice), and every transaction waiting for a slot key gets past the wait:
\* no set of concurrent transactions deadlocks on slot keys.
OneKeyNoDeadlock ==
    /\ [](\A p \in Procs : Cardinality(sess[p].held) <= 1)
    /\ \A p \in Procs :
          (sess[p].pc \in {"lock", "lock2"}) ~> (sess[p].pc \notin {"lock", "lock2"})

\* C38, witness: a direct reschedule holds its key after both acquisitions
\* while another transaction waits for the same key.
WaitsForDirectReschedule ==
    \E p \in Procs, q \in Procs :
        /\ p # q
        /\ sess[q].op = "admin_reschedule_appointment"
        /\ sess[q].pc = "open" /\ sess[q].res = "OK"
        /\ sess[q].held = {sess[q].key}
        /\ sess[p].pc = "lock"
        /\ sess[p].key \in sess[q].held

---------------------------------------------------------------------------
(* Failed calls *)

\* C39: a create or a reschedule proposal that fails with SLOT_TAKEN,
\* SLOT_BLOCKED or NOT_BOOKED changes nothing: no row is added to the
\* session, the loaded appointment stays as it was loaded, an earlier
\* proposal included, and the end of the transaction leaves every stored
\* appointment and every blocked interval as it was.
FailedCallChangesNothing ==
    [][\A p \in Procs :
          LET s == sess[p]
              s2 == sess'[p]
          IN /\ (s.op \in CreateOps /\ s.pc = "lock" /\ s2.pc = "open"
                   /\ s2.res \in {"SLOT_TAKEN", "SLOT_BLOCKED"}) =>
                   (~s2.add /\ appts' = appts /\ blocks' = blocks)
             /\ (s.pc = "idle" /\ s2.op = "request_reschedule" /\ s2.res = "NOT_BOOKED") =>
                   (s2.pc = "open" /\ s2.obj = appts[s2.id] /\ ~s2.add
                    /\ appts' = appts /\ blocks' = blocks)
             /\ (s.op = "request_reschedule" /\ s.pc = "lock" /\ s2.pc = "open"
                   /\ s2.res \in {"SLOT_TAKEN", "SLOT_BLOCKED"}) =>
                   (s2.obj = s.snap /\ ~s2.add /\ appts' = appts /\ blocks' = blocks)
             /\ (s.op \in CreateOps \cup {"request_reschedule"} /\ s.pc = "open"
                   /\ s2.pc = "idle"
                   /\ s.res \in {"SLOT_TAKEN", "SLOT_BLOCKED", "NOT_BOOKED"}) =>
                   (appts' = appts /\ blocks' = blocks)]_vars

\* C39, witness: a second proposal for an appointment that already has a
\* pending one failed on an occupied or blocked span, and the loaded
\* appointment still carries the earlier proposal.
FailedProposalKeptEarlier ==
    \E p \in Procs :
        /\ sess[p].op = "request_reschedule" /\ sess[p].pc = "open"
        /\ sess[p].res \in {"SLOT_TAKEN", "SLOT_BLOCKED"}
        /\ sess[p].snap.proposed_alt_start_dt # NULL
        /\ sess[p].snap.proposed_alt_start_dt # sess[p].start
        /\ sess[p].obj.proposed_alt_start_dt = sess[p].snap.proposed_alt_start_dt

---------------------------------------------------------------------------
(* Holds past their expiry that the sweeper has not processed yet, seen by the
   slot calculator and by the reservation check *)

\* The settings rows with no lead time and the later end of the working day
OccupancyViews ==
    {st \in SettingsViews : st.min_lead_time_min = 0 /\ st.work_end = 7}

\* One task reserves a start again and again, the other lists the slots
\* while a reservation is in flight
NextOccupancy ==
    \/ Reserve({1}, {1}, {2})
    \/ Slots({2}, OccupancyViews, {0})
    \/ commit(2)
    \/ Sweeper
    \/ advance_clock

SpecOccupancy == Init /\ [][NextOccupancy]_vars

\* C40: an appointment in Hold occupies its span whatever its
\* hold_expires_at: while the stored status is Hold, also after the expiry
\* has passed and before a sweeper run has written Rejected, no start
\* returned by list_available_slots_for_duration has an occupied span that
\* meets the hold, and a create for a span that meets it fails with
\* SLOT_TAKEN and adds no row.
ExpiredHoldStillOccupies ==
    [][\A p \in Procs :
          LET s == sess[p]
              s2 == sess'[p]
          IN /\ (s.pc = "idle" /\ s2.op = "list_available_slots") =>
                   \A i \in DOMAIN appts :
                      appts[i].status = "Hold" =>
                         \A k \in DOMAIN s2.slots :
                            ~(/\ appts[i].start_dt < SlotEndUtc(s2, k)
                              /\ appts[i].end_dt > SlotStartUtc(s2, k))
             /\ (s.op \in CreateOps /\ s.pc = "lock" /\ s2.pc = "open"
                   /\ \E i \in DOMAIN appts :
                         /\ appts[i].status = "Hold"
                         /\ appts[i].start_dt < s.end_ /\ appts[i].end_dt > s.start) =>
                   (s2.res = "SLOT_TAKEN" /\ ~s2.add)]_vars

\* C40, witness: with a stored Hold whose expiry has passed, a create over
\* its span was refused with SLOT_TAKEN, and a listing left out a start that
\* is on the grid, late enough and within the working day, because its span
\* meets that hold.
RefusedAndHiddenByExpiredHold ==
    \E p \in Procs, q \in Procs, i \in DOMAIN appts :
        /\ appts[i].status = "Hold"
        /\ appts[i].hold_expires_at # NULL
        /\ appts[i].hold_expires_at <= sess[p].now_utc
        /\ appts[i].hold_expires_at <= sess[q].now_utc
        /\ sess[p].op \in CreateOps /\ sess[p].pc = "open"
        /\ sess[p].res = "SLOT_TAKEN"
        /\ appts[i].start_dt < sess[p].end_ /\ appts[i].end_dt > sess[p].start
        /\ sess[q].op = "list_available_slots"
        /\ LET s == sess[q]
               span == s.dur + ServiceBuffer(s.obj.service_id) + buffer_min
               work_start_local == s.day * day_min + s.settings.work_start
               work_end_local == s.day * day_min + s.settings.work_end
           IN \E c \in 0..((MaxDay + 1) * day_min) :
                 /\ c >= work_start_local
                 /\ (c - work_start_local) % s.settings.slot_step_min = 0
                 /\ work_start_local % s.settings.slot_step_min = 0
                 /\ c >= s.now_utc + tz_offset + s.settings.min_lead_time_min
                 /\ c + span <= work_end_local
                 /\ appts[i].start_dt < c - tz_offset + span
                 /\ appts[i].end_dt > c - tz_offset
                 /\ \A k \in DOMAIN s.slots : s.slots[k] # c

====
